---- MODULE Spec2Model ----
(***************************************************************************)
(* Model of the dataset / batch-generator code of m-stoeckel/SSEI:         *)
(*   src/simulation/data/dataset.py  (module "simulation")                 *)
(*   src/digit/digit_dataset.py      (module "digit")                      *)
(*                                                                         *)
(* numpy arrays are sequences; a Python index i is position i+1.  An image *)
(* is a record [id, ops, side]: id names the pixel content it was loaded   *)
(* with (0 is the all-zero image), ops is the list of per-image operations *)
(* applied to it since, side is its height and width.                      *)
(***************************************************************************)
EXTENDS Integers, Sequences, FiniteSets

VARIABLES
    pc,                        \* "new" before _load/_split has run, "ready" after
    module,                    \* "simulation" or "digit"
    kind,                      \* the dataset subclass
    shuffle,                   \* self.shuffle
    resolution,                \* self.resolution / self.res
    digits, labels,            \* the arrays _load hands to _split
    train_x, train_y,          \* self.train_x, self.train_y
    test_x, test_y,            \* self.test_x, self.test_y
    shapes,                    \* train_x.shape[1:] and test_x.shape[1:]
    train_indices_by_number,   \* self.train_indices_by_number
    test_indices_by_number,    \* self.test_indices_by_number
    transforms,                \* self.transforms, the queue of transform sequences
    datasets,                  \* the datasets handed to ConcatDataset or BalancedDataGenerator
    gen,                       \* the fields of a BalancedDataGenerator
    tf,                        \* the fields of an ImageTransform
    pixels,                    \* the pixel array handed to ImageTransform.apply
    load,                      \* RealDataset._load: the directory listing and the loop's locals
    pool,                      \* one p_map call: its inputs and the results of its workers
    last                       \* the call made last: its name, arguments and outcome

dsVars == <<pc, module, kind, shuffle, resolution, digits, labels,
            train_x, train_y, test_x, test_y, shapes,
            train_indices_by_number, test_indices_by_number, transforms, last>>

vars == <<dsVars, datasets, gen, tf, pixels, load, pool>>

(***************************************************************************)
(* Bounds of the model and constants of the program                        *)
(***************************************************************************)
MaxN == 4              \* most samples handed to _split

CLASS_EMPTY == 0
CLASS_OUT == 10

\* the labels a loader can hand to _split: a digit class and CLASS_OUT
LabelChoices == {1, CLASS_OUT}

Min(a, b) == IF a < b THEN a ELSE b
Max(a, b) == IF a > b THEN a ELSE b

(***************************************************************************)
(* numpy helpers                                                           *)
(***************************************************************************)
\* arr[i] for a Python index i >= 0
At(arr, i) == arr[i + 1]

\* arr[a:b] for 0 <= a, 0 <= b: the window is cut at the end of the array
PySlice(arr, a, b) ==
    LET hi == Min(b, Len(arr))
    IN  IF a >= hi THEN << >> ELSE SubSeq(arr, a + 1, hi)

\* arr[a:]
PySliceFrom(arr, a) == PySlice(arr, a, Len(arr))

\* arr[idx] for an array idx of Python indices (fancy indexing)
Take(arr, idx) == [p \in 1..Len(idx) |-> At(arr, idx[p])]

\* the set of the entries of an array
Range(seq) == {seq[p] : p \in 1..Len(seq)}

\* np.arange(n)
Arange(n) == [p \in 1..n |-> p - 1]

\* np.tile(arr, reps)
RECURSIVE Tile(_, _)
Tile(arr, reps) == IF reps <= 0 THEN << >> ELSE arr \o Tile(arr, reps - 1)

\* the orders np.random.shuffle can leave an index array in
ShuffleOrders(idx) ==
    {q \in [1..Len(idx) -> {idx[p] : p \in 1..Len(idx)}] :
        \A a, b \in 1..Len(idx) : a # b => q[a] # q[b]}

\* np.flatnonzero(arr == c): the Python positions holding c, ascending
FlatNonzero(arr, c) ==
    LET hits == {i \in 0..(Len(arr) - 1) : arr[i + 1] = c}
    IN  [k \in 1..Cardinality(hits) |->
            CHOOSE i \in hits : Cardinality({j \in hits : j < i}) = k - 1]

(***************************************************************************)
(* Images                                                                  *)
(***************************************************************************)
Image(i, r) == [id |-> i, ops |-> << >>, side |-> r]

\* np.zeros((n, r, r)): n all-zero images
Zeros(n, r) == [p \in 1..n |-> Image(0, r)]

\* the images a loader read: sample p has its own pixel content
Loaded(n, r) == [p \in 1..n |-> Image(p, r)]

(***************************************************************************)
(* CharacterDataset.__init__ up to the call of _load                       *)
(***************************************************************************)
EmptyIndex == [c \in {0} |-> << >>]

NoCall == [op |-> "none"]

\* the shapes of np.empty(0), and of n images of side r
Unallocated == [train |-> << >>, test |-> << >>]

Gray(r) == [train |-> <<r, r>>, test |-> <<r, r>>]

\* no generator has been constructed
NoGen == [batch_size |-> 0]

NoTransform == [name |-> "none"]

NoArray == [shape |-> << >>, px |-> << >>]

\* no directory is being loaded, and no p_map call is under way
NoLoad == [at |-> 0]

NoPool == [op |-> "none"]

\* train_count = int(all_count * 0.9)
TrainCountRounded(all_count) ==
    LET q == (9 * all_count) \div 10
        r == (9 * all_count) % 10
    IN  IF r > 5 \/ (r = 5 /\ q % 2 = 1) THEN q + 1 ELSE q

TrainCount(all_count) == (9 * all_count) \div 10

\* indices = np.arange(all_count); if self.shuffle: np.random.shuffle(indices)
ShuffledAlways(all_count, shuf) == ShuffleOrders(Arange(all_count))

SplitIndices(all_count, shuf) ==
    IF shuf THEN ShuffleOrders(Arange(all_count)) ELSE {Arange(all_count)}

\* the part of the shuffled index array that goes to the test split
TestPartSkipsOne(indices, train_count) == PySliceFrom(indices, train_count + 1)

TestPart(indices, train_count) == PySliceFrom(indices, train_count)

TrainPart(indices, train_count) == PySlice(indices, 0, train_count)

SplitKinds == {"Character", "Empty", "RealValidation"}

InitSplit ==
    /\ pc = "new"
    /\ module = "simulation"
    /\ kind \in SplitKinds
    /\ shuffle \in (IF kind = "Character" THEN BOOLEAN ELSE {TRUE})
    /\ resolution = 2
    /\ \E n \in 0..MaxN :
          /\ digits = (IF kind = "Empty" THEN Zeros(n, resolution) ELSE Loaded(n, resolution))
          /\ labels \in (IF kind = "Empty" THEN {[p \in 1..n |-> CLASS_EMPTY]}
                         ELSE [1..n -> LabelChoices])
    /\ train_x = << >> /\ train_y = << >>
    /\ test_x = << >> /\ test_y = << >>
    /\ shapes = Unallocated
    /\ train_indices_by_number = EmptyIndex
    /\ test_indices_by_number = EmptyIndex
    /\ transforms = << >>
    /\ datasets = << >>
    /\ gen = NoGen
    /\ tf = NoTransform /\ pixels = NoArray
    /\ load = NoLoad /\ pool = NoPool
    /\ last = NoCall

SplitFrame ==
    UNCHANGED <<module, kind, shuffle, resolution, digits, labels,
                train_indices_by_number, test_indices_by_number, transforms,
                datasets, gen, tf, pixels, load, pool>>

\* CharacterDataset._split
SplitCharacter ==
    /\ pc = "new" /\ kind = "Character"
    /\ LET all_count == Len(digits)
           train_count == TrainCount(all_count)
       IN  \E indices \in SplitIndices(all_count, shuffle) :
              /\ train_x' = Take(digits, TrainPart(indices, train_count))
              /\ train_y' = Take(labels, TrainPart(indices, train_count))
              /\ test_x' = Take(digits, TestPart(indices, train_count))
              /\ test_y' = Take(labels, TestPart(indices, train_count))
              /\ shapes' = Gray(resolution)
              /\ last' = [op |-> "_split"]
    /\ pc' = "ready"
    /\ SplitFrame

\* EmptyDataset._split
SplitEmpty ==
    /\ pc = "new" /\ kind = "Empty"
    /\ LET train_count == TrainCount(Len(digits))
       IN  /\ train_x' = PySlice(digits, 0, train_count)
           /\ train_y' = PySlice(labels, 0, train_count)
           /\ test_x' = PySliceFrom(digits, train_count)
           /\ test_y' = PySliceFrom(labels, train_count)
           /\ shapes' = Gray(resolution)
           /\ last' = [op |-> "_split"]
    /\ pc' = "ready"
    /\ SplitFrame

\* RealValidationDataset._split
SplitRealValidation ==
    /\ pc = "new" /\ kind = "RealValidation"
    /\ train_x' = << >>
    /\ train_y' = << >>
    /\ test_x' = digits
    /\ test_y' = labels
    /\ shapes' = [train |-> << >>, test |-> <<resolution, resolution>>]
    /\ last' = [op |-> "_split"]
    /\ pc' = "ready"
    /\ SplitFrame

NextSplit == SplitCharacter \/ SplitEmpty \/ SplitRealValidation

SpecSplit == InitSplit /\ [][NextSplit]_vars

(***************************************************************************)
(* A constructed dataset and the calls made on it                          *)
(***************************************************************************)
MaxLoad == 3           \* most samples a loader reads
MaxQueue == 2          \* most queued transform sequences
MaxTotal == 6          \* most stored samples (train and test) after an expansion
MaxOps == 2            \* most operations recorded on one image

Resolutions == {2, 3}

TransformNames == {"perspective", "noise"}

\* the sequences add_transforms can be handed
TransformSeqs == {<<"perspective">>, <<"noise", "perspective">>}

\* the record of one per-image operation
Op(name, arg) == [name |-> name, arg |-> arg]

NoImage == [id |-> -1, ops |-> << >>, side |-> 0]

\* the longest operation record among the stored images, and the longest
\* queued sequence: the model stops growing images beyond MaxOps operations
MostOps(x1, x2) ==
    LET lens == {Len(x1[p].ops) : p \in 1..Len(x1)} \cup {Len(x2[p].ops) : p \in 1..Len(x2)}
    IN  IF lens = {} THEN 0 ELSE CHOOSE l \in lens : \A o \in lens : o <= l

LongestSeq(queue) ==
    LET lens == {Len(queue[i]) : i \in 1..Len(queue)}
    IN  IF lens = {} THEN 0 ELSE CHOOSE l \in lens : \A o \in lens : o <= l

TransformSkipped(t, img) == img

\* transform.apply(img)
TransformApply(t, img) == [img EXCEPT !.ops = Append(@, Op(t, 0))]

\* _apply_transforms(img): for transform in transforms: img = transform.apply(img)
RECURSIVE ApplySeq(_, _)
ApplySeq(seq, img) ==
    IF seq = << >> THEN img
    ELSE ApplySeq(Tail(seq), TransformApply(Head(seq), img))

\* cv2.resize(img, (resolution, resolution), interpolation)
CvResize(img, r) == [img EXCEPT !.ops = Append(@, Op("resize", r)), !.side = r]

\* int(keep) + n_transforms
NewCountKeepsAlways(keep, n_transforms) == 1 + n_transforms

NewCount(keep, n_transforms) == (IF keep THEN 1 ELSE 0) + n_transforms

ExpandedKept(x, queue, keep) == x

\* new_x after the loop of apply_transforms: the array is allocated with
\* int(keep) + n_transforms blocks of n images; block 0 is assigned the old
\* array when keep, and the loop assigns block i, counted from int(keep), the
\* images of the queued sequences in turn
Expanded(x, queue, keep) ==
    LET n == Len(x)
        first == IF keep THEN 1 ELSE 0
    IN  [p \in 1..(n * NewCount(keep, Len(queue))) |->
            LET i == (p - 1) \div n
                j == (p - 1) % n
            IN  IF keep /\ i = 0 THEN x[j + 1]
                ELSE IF i - first + 1 \in 1..Len(queue)
                     THEN ApplySeq(queue[i - first + 1], x[j + 1])
                     ELSE Image(0, x[j + 1].side)]

\* if resolution == self.resolution: return
ResizeAlways(res, current) == TRUE

ResizeNeeded(res, current) == res # current

\* _get_resized: "simulation" resizes every image, "digit" those whose side differs
GetResized(mod, x, r) ==
    [p \in 1..Len(x) |->
        IF mod = "digit" /\ x[p].side = r THEN x[p] ELSE CvResize(x[p], r)]

\* the per-class index a loader builds
CuratedIndexKeys == (1..9) \cup {CLASS_OUT}

BuiltIndex(mod, knd, y) ==
    IF mod = "simulation" /\ knd = "Curated"
    THEN [c \in CuratedIndexKeys |-> FlatNonzero(y, c)]
    ELSE EmptyIndex

\* self.train_indices_by_number[digit][index]
OrderedPickFirst(idx, index) == At(idx, 0)

OrderedPick(idx, index) == At(idx, index)

DatasetClasses == {<<"simulation", "Curated">>, <<"simulation", "Empty">>,
                   <<"digit", "Curated">>}

QueryClasses == {0, 1, 2, CLASS_OUT, 11}

Init ==
    /\ pc = "ready"
    /\ \E mk \in DatasetClasses : module = mk[1] /\ kind = mk[2]
    /\ shuffle = FALSE
    /\ resolution = 2
    /\ \E n \in 0..MaxLoad :
          /\ digits = (IF kind = "Empty" THEN Zeros(n, resolution) ELSE Loaded(n, resolution))
          /\ labels \in (IF kind = "Empty" THEN {[p \in 1..n |-> CLASS_EMPTY]}
                         ELSE [1..n -> LabelChoices])
    /\ LET train_count == TrainCount(Len(digits))
           indices == Arange(Len(digits))
       IN  /\ train_x = Take(digits, TrainPart(indices, train_count))
           /\ train_y = Take(labels, TrainPart(indices, train_count))
           /\ test_x = Take(digits, TestPart(indices, train_count))
           /\ test_y = Take(labels, TestPart(indices, train_count))
    /\ shapes = Gray(resolution)
    /\ train_indices_by_number = BuiltIndex(module, kind, train_y)
    /\ test_indices_by_number = BuiltIndex(module, kind, test_y)
    /\ transforms = << >>
    /\ datasets = << >>
    /\ gen = NoGen
    /\ tf = NoTransform /\ pixels = NoArray
    /\ load = NoLoad /\ pool = NoPool
    /\ last = NoCall

Fixed == UNCHANGED <<pc, module, kind, shuffle, digits, labels, datasets, gen, tf, pixels, load, pool>>

\* CharacterDataset.add_transforms
AddTransforms ==
    /\ pc = "ready"
    /\ Len(transforms) < MaxQueue
    /\ \E seq \in TransformSeqs :
          /\ transforms' = Append(transforms, seq)
          /\ last' = [op |-> "add_transforms", seq |-> seq]
    /\ Fixed
    /\ UNCHANGED <<resolution, train_x, train_y, test_x, test_y, shapes,
                   train_indices_by_number, test_indices_by_number>>

\* self.train_x.shape * np.array([int(keep) + n_transforms, 1, 1]) raises
\* ValueError for an array of four axes
ShapeProductRaises(tail) == Len(tail) = 3

\* new_x[n * i:n * (i + 1)] = x_i raises ValueError in "simulation" when x_i
\* is the empty list p_map returns for no images: its shape (0,) does not
\* broadcast into (0, r, r); "digit" assigns image by image
BlockAssignRaises(mod, x, tail) ==
    mod = "simulation" /\ Len(x) = 0 /\ tail # << >> /\ tail[1] # 0

\* the shape past the first axis of np.zeros(shape * [c, 1, 1])
ExpandedTail(tail) == IF tail = << >> THEN <<0, 0>> ELSE tail

ApplyRaises(mod, x1, x2, shp) ==
    \/ ShapeProductRaises(shp.train) \/ ShapeProductRaises(shp.test)
    \/ BlockAssignRaises(mod, x1, shp.train) \/ BlockAssignRaises(mod, x2, shp.test)

QueueEmptyNever(queue) == FALSE

\* if not self.transforms: return
QueueEmpty(queue) == queue = << >>

ClearedNever(queue, clear) == queue

\* if clear: self.transforms.clear()
Cleared(queue, clear) == IF clear THEN << >> ELSE queue

\* CharacterDataset.apply_transforms; "digit" has no clear argument and
\* never clears the queue
ApplyTransforms ==
    /\ pc = "ready"
    /\ \E keep \in BOOLEAN, clear \in BOOLEAN :
          /\ module = "digit" => ~clear
          /\ (Len(train_x) + Len(test_x)) * NewCount(keep, Len(transforms)) <= MaxTotal
          /\ MostOps(train_x, test_x) + LongestSeq(transforms) <= MaxOps
          /\ IF QueueEmpty(transforms)
             THEN /\ last' = [op |-> "apply_transforms", keep |-> keep, clear |-> clear,
                              k |-> 0, n |-> Len(train_x), m |-> Len(test_x),
                              raised |-> "none"]
                  /\ UNCHANGED <<train_x, train_y, test_x, test_y, shapes, transforms>>
             ELSE IF ApplyRaises(module, train_x, test_x, shapes)
             THEN /\ last' = [op |-> "apply_transforms", keep |-> keep, clear |-> clear,
                              k |-> Len(transforms), n |-> Len(train_x), m |-> Len(test_x),
                              raised |-> "ValueError"]
                  /\ UNCHANGED <<train_x, train_y, test_x, test_y, shapes, transforms>>
             ELSE /\ last' = [op |-> "apply_transforms", keep |-> keep, clear |-> clear,
                              k |-> Len(transforms), n |-> Len(train_x), m |-> Len(test_x),
                              raised |-> "none"]
                  /\ train_x' = Expanded(train_x, transforms, keep)
                  /\ test_x' = Expanded(test_x, transforms, keep)
                  /\ train_y' = Tile(train_y, NewCount(keep, Len(transforms)))
                  /\ test_y' = Tile(test_y, NewCount(keep, Len(transforms)))
                  /\ shapes' = [train |-> ExpandedTail(shapes.train),
                                test |-> ExpandedTail(shapes.test)]
                  /\ transforms' = Cleared(transforms, clear)
    /\ Fixed
    /\ UNCHANGED <<resolution, train_indices_by_number, test_indices_by_number>>

\* the shape past the first axis of the array _get_resized allocates
ResizedTail(mod, tail, res) ==
    IF mod = "simulation" /\ Len(tail) = 3 THEN <<res, res, tail[3]>> ELSE <<res, res>>

\* CharacterDataset.resize
Resize ==
    /\ pc = "ready"
    /\ MostOps(train_x, test_x) < MaxOps
    /\ \E res \in Resolutions :
          /\ last' = [op |-> "resize", res |-> res, same |-> (res = resolution)]
          /\ IF ResizeNeeded(res, resolution)
             THEN /\ train_x' = GetResized(module, train_x, res)
                  /\ test_x' = GetResized(module, test_x, res)
                  /\ shapes' = [train |-> ResizedTail(module, shapes.train, res),
                                test |-> ResizedTail(module, shapes.test, res)]
                  /\ resolution' = res
             ELSE UNCHANGED <<train_x, test_x, shapes, resolution>>
    /\ Fixed
    /\ UNCHANGED <<train_y, test_y, train_indices_by_number,
                   test_indices_by_number, transforms>>

\* CharacterDataset.get_ordered
GetOrdered ==
    /\ pc = "ready" /\ module = "simulation"
    /\ \E digit \in QueryClasses :
          IF digit \notin DOMAIN train_indices_by_number
          THEN last' = [op |-> "get_ordered", digit |-> digit, index |-> 0,
                        raised |-> "KeyError", ret |-> NoImage]
          ELSE \E index \in 0..Len(train_indices_by_number[digit]) :
                  IF index >= Len(train_indices_by_number[digit])
                  THEN last' = [op |-> "get_ordered", digit |-> digit, index |-> index,
                                raised |-> "IndexError", ret |-> NoImage]
                  ELSE last' = [op |-> "get_ordered", digit |-> digit, index |-> index,
                                raised |-> "none",
                                ret |-> At(train_x,
                                           OrderedPick(train_indices_by_number[digit], index))]
    /\ Fixed
    /\ UNCHANGED <<resolution, train_x, train_y, test_x, test_y, shapes,
                   train_indices_by_number, test_indices_by_number, transforms>>

\* np.random.choice(a): ValueError for an empty a, else any of its entries
Choice(a) == Range(a)

\* self.train_x[np.random.choice(self.train_indices_by_number[key])], where
\* the index is a dict ("simulation": KeyError for a missing key) or a list
\* ("digit": IndexError past its end); key >= 0
RandomOutcomes(mod, index, x, digit, key) ==
    IF key \notin DOMAIN index
    THEN {[op |-> "get_random", digit |-> digit,
           raised |-> IF mod = "simulation" THEN "KeyError" ELSE "IndexError",
           position |-> -1, ret |-> NoImage]}
    ELSE IF Len(index[key]) = 0
    THEN {[op |-> "get_random", digit |-> digit, raised |-> "ValueError",
           position |-> -1, ret |-> NoImage]}
    ELSE {[op |-> "get_random", digit |-> digit, raised |-> "none",
           position |-> i, ret |-> At(x, i)] : i \in Choice(index[key])}

\* CharacterDataset.get_random
GetRandom ==
    /\ pc = "ready" /\ module = "simulation"
    /\ \E digit \in QueryClasses :
          last' \in RandomOutcomes(module, train_indices_by_number, train_x, digit, digit)
    /\ Fixed
    /\ UNCHANGED <<resolution, train_x, train_y, test_x, test_y, shapes,
                   train_indices_by_number, test_indices_by_number, transforms>>

Next == AddTransforms \/ ApplyTransforms \/ Resize \/ GetOrdered \/ GetRandom

Spec == Init /\ [][Next]_vars

(***************************************************************************)
(* Claims about a constructed dataset, checked under Spec                  *)
(***************************************************************************)
\* y2 is y repeated c times, in y's order
Repeated(y2, y, c) ==
    /\ Len(y2) = Len(y) * c
    /\ \A p \in 1..Len(y2) : y2[p] = y[((p - 1) % Len(y)) + 1]

C5_ResizeSameIsNoop ==
    [][(last'.op = "resize" /\ last'.res = resolution) =>
          UNCHANGED <<train_x, test_x, train_y, test_y, resolution>>]_vars

C5_Witness ==
    /\ last.op = "resize" /\ last.same
    /\ Len(train_x) >= 2 /\ Len(test_x) >= 1
    /\ \E p \in 1..Len(train_x) : train_x[p].ops # << >>

\* C6: get_ordered(class_id, i) for a class_id of the index returns, for
\* 0 <= i < count(class_id), the train image at the i-th position of the
\* class's index list (so the same image on every call), raises IndexError
\* for i = count(class_id), and changes nothing of the dataset.
C6_GetOrdered ==
    [][(last'.op = "get_ordered" /\ last'.digit \in DOMAIN train_indices_by_number) =>
          LET idx == train_indices_by_number[last'.digit]
          IN  /\ UNCHANGED <<train_x, train_y, test_x, test_y, resolution, transforms,
                             train_indices_by_number, test_indices_by_number>>
              /\ last'.index < Len(idx) =>
                    /\ last'.raised = "none"
                    /\ last'.ret = train_x[idx[last'.index + 1] + 1]
              /\ last'.index = Len(idx) => last'.raised = "IndexError"]_vars

C6_Witness ==
    /\ last.op = "get_ordered" /\ last.raised = "none"
    /\ last.index = 1 /\ last.ret = train_x[2]
    /\ train_x[1] # train_x[2]

C6_WitnessOutOfRange ==
    /\ last.op = "get_ordered" /\ last.raised = "IndexError"
    /\ last.index = 2 /\ Len(train_indices_by_number[last.digit]) = 2

(***************************************************************************)
(* Claims about _split, checked under SpecSplit                            *)
(***************************************************************************)
Pairs(x, y) == [p \in 1..Len(x) |-> <<x[p], y[p]>>]

Count(seq, v) == Cardinality({p \in 1..Len(seq) : seq[p] = v})

\* C2: after _split on N samples train and test together hold exactly the N
\* input samples: each (image, label) pair of the input occurs in train and
\* test together as often as in the input, and nothing else occurs.
C2_SplitPartitions ==
    pc = "ready" =>
        /\ Len(train_x) = Len(train_y)
        /\ Len(test_x) = Len(test_y)
        /\ Len(train_x) + Len(test_x) = Len(digits)
        /\ \A v \in Range(Pairs(digits, labels)) \cup Range(Pairs(train_x, train_y))
                    \cup Range(Pairs(test_x, test_y)) :
              Count(Pairs(train_x, train_y), v) + Count(Pairs(test_x, test_y), v)
                  = Count(Pairs(digits, labels), v)

C2_Witness ==
    /\ pc = "ready" /\ kind = "Character" /\ shuffle
    /\ Len(train_x) >= 2 /\ Len(test_x) >= 1
    /\ train_x[1] # digits[1]

\* round(0.9 * n), ties to even
Round09(n) ==
    LET q == (9 * n) \div 10
        r == (9 * n) % 10
    IN  IF r > 5 \/ (r = 5 /\ q % 2 = 1) THEN q + 1 ELSE q

\* C3 as claimed: after _split the train split has exactly round(0.9 * N)
\* samples.
C3_TrainIsRounded == pc = "ready" => Len(train_x) = Round09(Len(digits))

\* C3 as amended: after _split the train split has exactly floor(0.9 * N)
\* samples (the largest t with 10 t <= 9 N), except in RealValidationDataset,
\* whose _split leaves the train split empty.
C3_TrainIsFloor ==
    pc = "ready" =>
        IF kind = "RealValidation" THEN Len(train_x) = 0
        ELSE /\ 10 * Len(train_x) <= 9 * Len(digits)
             /\ 9 * Len(digits) < 10 * (Len(train_x) + 1)

C3_Witness ==
    /\ pc = "ready" /\ kind = "Character"
    /\ Len(digits) = 2 /\ Len(train_x) = 1 /\ Len(test_x) = 1

\* C4: CharacterDataset._split without shuffle puts the first 90% of the
\* input, in input order, into train and the rest, in input order, into test;
\* with shuffle the splits are the first 90% and the rest of one permutation
\* of the input positions.
C4_SplitOrder ==
    (pc = "ready" /\ kind = "Character") =>
        LET t == Len(train_x)
        IN  /\ 10 * t <= 9 * Len(digits) /\ 9 * Len(digits) < 10 * (t + 1)
            /\ ~shuffle =>
                  /\ train_x = SubSeq(digits, 1, t)
                  /\ train_y = SubSeq(labels, 1, t)
                  /\ test_x = SubSeq(digits, t + 1, Len(digits))
                  /\ test_y = SubSeq(labels, t + 1, Len(labels))
            /\ shuffle =>
                  \E q \in ShuffleOrders(Arange(Len(digits))) :
                      /\ train_x = [p \in 1..t |-> digits[q[p] + 1]]
                      /\ train_y = [p \in 1..t |-> labels[q[p] + 1]]
                      /\ test_x = [p \in 1..(Len(digits) - t) |-> digits[q[t + p] + 1]]
                      /\ test_y = [p \in 1..(Len(digits) - t) |-> labels[q[t + p] + 1]]

C4_Witness ==
    /\ pc = "ready" /\ kind = "Character" /\ ~shuffle
    /\ Len(train_x) >= 2 /\ Len(test_x) >= 1

(***************************************************************************)
(* ConcatDataset.__init__ of both modules                                  *)
(***************************************************************************)
MaxCatLoad == 3        \* most samples loaded by one input of ConcatDataset

\* the images input a of ConcatDataset loaded: the contents differ between inputs
LoadedBy(a, n, r) == [p \in 1..n |-> Image(10 * a + p, r)]

\* an input dataset: loaded, split without shuffle and, when expanded, put
\* through apply_transforms(keep=True) with one queued sequence
InputDataset(a, labs, r, expanded) ==
    LET n == Len(labs)
        indices == Arange(n)
        tx == Take(LoadedBy(a, n, r), TrainPart(indices, TrainCount(n)))
        ty == Take(labs, TrainPart(indices, TrainCount(n)))
        ux == Take(LoadedBy(a, n, r), TestPart(indices, TrainCount(n)))
        uy == Take(labs, TestPart(indices, TrainCount(n)))
        queue == << <<"perspective">> >>
    IN  IF expanded
        THEN [resolution |-> r,
              train_x |-> Expanded(tx, queue, TRUE), train_y |-> Tile(ty, 2),
              test_x |-> Expanded(ux, queue, TRUE), test_y |-> Tile(uy, 2)]
        ELSE [resolution |-> r, train_x |-> tx, train_y |-> ty,
              test_x |-> ux, test_y |-> uy]

\* the label arrays an input can have loaded
InputLabels == UNION {[1..n -> LabelChoices] : n \in 0..MaxCatLoad}

\* d.resize(res) on an input
Resized(mod, d, res) ==
    IF ResizeNeeded(res, d.resolution)
    THEN [d EXCEPT !.train_x = GetResized(mod, d.train_x, res),
                   !.test_x = GetResized(mod, d.test_x, res),
                   !.resolution = res]
    ELSE d

\* the inputs after the first loop: res is the first input's resolution,
\* every later input is resized to it
AfterResize(mod, ds) == [a \in 1..Len(ds) |-> Resized(mod, ds[a], ds[1].resolution)]

RECURSIVE SumTrain(_)
SumTrain(ds) == IF ds = << >> THEN 0 ELSE Len(Head(ds).train_x) + SumTrain(Tail(ds))

RECURSIVE SumTest(_)
SumTest(ds) == IF ds = << >> THEN 0 ELSE Len(Head(ds).test_x) + SumTest(Tail(ds))

\* the length the test containers are allocated with: test_size in
\* "simulation", train_size in "digit"
TestAllocation(mod, ds) == IF mod = "digit" THEN SumTrain(ds) ELSE SumTest(ds)

\* what a freshly allocated cell can hold: np.zeros gives zeros, np.empty
\* whatever the memory held
FillImages(mod, res) ==
    IF mod = "digit" THEN {Image(0, res), Image(255, res)} ELSE {Image(0, res)}

FillLabels(mod) == IF mod = "digit" THEN {0, 7} ELSE {0}

\* target[off:off + Len(src)] = src, numpy's rules: the window is cut at the
\* end of target; src must be as long as the window or of length 1
WindowLen(target, off, src) == Len(PySlice(target, off, off + Len(src)))

CanAssign(target, off, src) ==
    \/ WindowLen(target, off, src) = Len(src)
    \/ Len(src) = 1

Assigned(target, off, src) ==
    [p \in 1..Len(target) |->
        IF p - 1 >= off /\ p - 1 < off + WindowLen(target, off, src)
        THEN (IF Len(src) = 1 THEN src[1] ELSE src[p - off])
        ELSE target[p]]

\* images of another side than the container's do not fit
SidesFit(src, res) == \A p \in 1..Len(src) : src[p].side = res

\* train_offset += train_size
OffsetStuck(off, size) == off

NextOffset(off, size) == off + size

\* the copy loop: st holds the containers and offsets so far, or raised
RECURSIVE CopyAll(_, _, _)
CopyAll(st, ds, res) ==
    IF ds = << >> \/ st.raised THEN st
    ELSE LET d == Head(ds)
             fits == /\ CanAssign(st.train_x, st.train_offset, d.train_x)
                     /\ SidesFit(d.train_x, res)
                     /\ CanAssign(st.test_x, st.test_offset, d.test_x)
                     /\ SidesFit(d.test_x, res)
         IN  IF ~fits THEN [st EXCEPT !.raised = TRUE]
             ELSE CopyAll(
                    [raised |-> FALSE,
                     train_x |-> Assigned(st.train_x, st.train_offset, d.train_x),
                     train_y |-> Assigned(st.train_y, st.train_offset, d.train_y),
                     test_x |-> Assigned(st.test_x, st.test_offset, d.test_x),
                     test_y |-> Assigned(st.test_y, st.test_offset, d.test_y),
                     train_offset |-> NextOffset(st.train_offset, Len(d.train_x)),
                     test_offset |-> NextOffset(st.test_offset, Len(d.test_x))],
                    Tail(ds), res)

ConcatIndexKeys == 0..19

InitConcat ==
    /\ pc = "new"
    /\ module \in {"simulation", "digit"}
    /\ kind = "Concat"
    /\ shuffle = TRUE
    /\ resolution = 0
    /\ digits = << >> /\ labels = << >>
    /\ train_x = << >> /\ train_y = << >>
    /\ test_x = << >> /\ test_y = << >>
    /\ shapes = Unallocated
    /\ train_indices_by_number = EmptyIndex
    /\ test_indices_by_number = EmptyIndex
    /\ transforms = << >>
    /\ \E l1 \in InputLabels, r1 \in Resolutions, e1 \in BOOLEAN :
          \/ datasets = <<InputDataset(1, l1, r1, e1)>>
          \/ \E l2 \in InputLabels, r2 \in Resolutions, e2 \in BOOLEAN :
                datasets = <<InputDataset(1, l1, r1, e1), InputDataset(2, l2, r2, e2)>>
    /\ gen = NoGen
    /\ tf = NoTransform /\ pixels = NoArray
    /\ load = NoLoad /\ pool = NoPool
    /\ last = NoCall

\* ConcatDataset.__init__
ConcatInit ==
    /\ pc = "new" /\ kind = "Concat"
    /\ \E res \in {datasets[1].resolution}, ds \in {AfterResize(module, datasets)} :
           /\ datasets' = ds
           /\ \E fx \in FillImages(module, res), fy \in FillLabels(module) :
                 \E st \in {CopyAll(
                              [raised |-> FALSE,
                               train_x |-> [p \in 1..SumTrain(ds) |-> Image(0, res)],
                               train_y |-> [p \in 1..SumTrain(ds) |-> 0],
                               test_x |-> [p \in 1..TestAllocation(module, ds) |-> fx],
                               test_y |-> [p \in 1..TestAllocation(module, ds) |-> fy],
                               train_offset |-> 0, test_offset |-> 0],
                              ds, res)} :
                     IF st.raised
                     THEN /\ pc' = "failed"
                          /\ last' = [op |-> "ConcatDataset", raised |-> "ValueError"]
                          /\ UNCHANGED <<resolution, train_x, train_y, test_x, test_y, shapes,
                                         train_indices_by_number, test_indices_by_number>>
                     ELSE /\ pc' = "ready"
                          /\ last' = [op |-> "ConcatDataset", raised |-> "none"]
                          /\ resolution' = res
                          /\ train_x' = st.train_x /\ train_y' = st.train_y
                          /\ test_x' = st.test_x /\ test_y' = st.test_y
                          /\ shapes' = Gray(res)
                          /\ IF module = "simulation"
                             THEN /\ train_indices_by_number' =
                                        [c \in ConcatIndexKeys |-> FlatNonzero(st.train_y, c)]
                                  /\ test_indices_by_number' =
                                        [c \in ConcatIndexKeys |-> FlatNonzero(st.test_y, c)]
                             ELSE UNCHANGED <<train_indices_by_number, test_indices_by_number>>
    /\ UNCHANGED <<module, kind, shuffle, digits, labels, transforms, gen, tf, pixels, load, pool>>

NextConcat == ConcatInit

SpecConcat == InitConcat /\ [][NextConcat]_vars

(***************************************************************************)
(* Claims about ConcatDataset, checked under SpecConcat                    *)
(***************************************************************************)
\* C7: a constructed ConcatDataset has as many train samples as its inputs
\* together; its first a_train train images and labels are the first
\* input's, in order, the next b_train the second input's, in order.
C7_ConcatTrain ==
    (pc = "ready" /\ kind = "Concat") =>
        LET A == datasets[1]
            a == Len(A.train_x)
        IN  /\ Len(train_x) = Len(train_y)
            /\ \A p \in 1..a : train_x[p] = A.train_x[p] /\ train_y[p] = A.train_y[p]
            /\ IF Len(datasets) = 1 THEN Len(train_x) = a
               ELSE LET B == datasets[2]
                        b == Len(B.train_x)
                    IN  /\ Len(train_x) = a + b
                        /\ \A p \in 1..b : /\ train_x[a + p] = B.train_x[p]
                                           /\ train_y[a + p] = B.train_y[p]

C7_Witness ==
    /\ pc = "ready" /\ kind = "Concat" /\ Len(datasets) = 2
    /\ last.op = "ConcatDataset"
    /\ datasets[1].resolution = datasets[2].resolution
    /\ Len(datasets[1].train_x) = 2 /\ Len(datasets[2].train_x) = 2
    /\ Len(train_x) = 4
    /\ train_y[1] # train_y[2] /\ train_y[3] # train_y[4]

\* C8: in both modules the test image and test label containers of a
\* constructed ConcatDataset are exactly as long as the inputs' test splits
\* together and hold each input's test samples at its running offset.
C8_ConcatTestExact ==
    (pc = "ready" /\ kind = "Concat") =>
        LET A == datasets[1]
            a == Len(A.test_x)
            b == IF Len(datasets) = 1 THEN 0 ELSE Len(datasets[2].test_x)
        IN  /\ Len(test_x) = a + b
            /\ Len(test_y) = a + b
            /\ \A p \in 1..a : test_x[p] = A.test_x[p] /\ test_y[p] = A.test_y[p]
            /\ \A p \in 1..b : /\ test_x[a + p] = datasets[2].test_x[p]
                               /\ test_y[a + p] = datasets[2].test_y[p]

(***************************************************************************)
(* BalancedDataGenerator (module "digit")                                  *)
(***************************************************************************)
MaxSrc == 2            \* most train samples of one source dataset
MaxBatch == 5          \* largest batch_size

NumClasses == 20

\* the label of sample p of source a: machine digits, handwritten digits, out
SourceLabel(a, p) ==
    IF a = 1 THEN (p - 1) % 9
    ELSE IF a = 2 THEN 11 + ((p - 1) % 9)
    ELSE 0

\* source a with n train samples of side r
SourceDataset(a, n, r) ==
    [resolution |-> r,
     train_x |-> LoadedBy(a, n, r), train_y |-> [p \in 1..n |-> SourceLabel(a, p)],
     test_x |-> << >>, test_y |-> << >>]

FloorDiv(a, b) == a \div b

\* int(np.ceil(a / b))
CeilDiv(a, b) == (a \div b) + (IF a % b = 0 THEN 0 ELSE 1)

\* BalancedDataGenerator.__len__
GenLen(g, ds) == CeilDiv(Len(ds[1].train_x) * 2, g.batch_size)

MiniBatchSizeCeil(batch_size) == (batch_size + 2) \div 3

\* mini_batch_size = int(self.batch_size / 3)
MiniBatchSize(batch_size) == batch_size \div 3

MiniBatchSizeLastThird(batch_size) == batch_size \div 3

\* mini_batch_size_last = self.batch_size - 2 * mini_batch_size
MiniBatchSizeLast(batch_size) == batch_size - 2 * MiniBatchSize(batch_size)

WindowFromStart(indices, index, size) == PySlice(indices, 0, (index + 1) * size)

\* indices[index * size:(index + 1) * size]
Window(indices, index, size) == PySlice(indices, index * size, (index + 1) * size)

ToCategoricalShifted(y, num_classes) ==
    [p \in 1..Len(y) |-> [c \in 0..(num_classes - 1) |-> IF c = y[p] + 1 THEN 1 ELSE 0]]

\* keras.utils.to_categorical(y, num_classes)
ToCategorical(y, num_classes) ==
    [p \in 1..Len(y) |-> [c \in 0..(num_classes - 1) |-> IF c = y[p] THEN 1 ELSE 0]]

\* x.astype(np.float32); x /= 255.
Scaled(x) == [p \in 1..Len(x) |-> [x[p] EXCEPT !.ops = Append(@, Op("scale", 255))]]

\* np.random.shuffle of np.arange(n), for every n within the bounds
OrdersOf == [n \in 0..MaxSrc |-> ShuffleOrders(Arange(n))]

\* the index orders a constructor or on_epoch_end can leave: machine and
\* handwritten are shuffled when self.shuffle, out_indices never is
IndexOrders(n, shuf) == IF shuf THEN OrdersOf[n] ELSE {Arange(n)}

InitGen ==
    /\ pc = "generator"
    /\ module = "digit"
    /\ kind = "none"
    /\ shuffle = FALSE
    /\ resolution = 0
    /\ digits = << >> /\ labels = << >>
    /\ train_x = << >> /\ train_y = << >>
    /\ test_x = << >> /\ test_y = << >>
    /\ shapes = Unallocated
    /\ train_indices_by_number = EmptyIndex
    /\ test_indices_by_number = EmptyIndex
    /\ transforms = << >>
    /\ \E n \in 0..MaxSrc, h \in 0..MaxSrc, o \in 0..MaxSrc,
          rm \in Resolutions, rh \in Resolutions, ro \in Resolutions :
          datasets = <<SourceDataset(1, n, rm), SourceDataset(2, h, rh),
                       SourceDataset(3, o, ro)>>
    /\ \E b \in 1..MaxBatch, shuf \in BOOLEAN, flat \in BOOLEAN, res \in {2} :
          \E mi \in IndexOrders(Len(datasets[1].train_y), shuf),
             hi \in IndexOrders(Len(datasets[2].train_y), shuf) :
             gen = [batch_size |-> b, shuffle |-> shuf, flatten |-> flat,
                    resolution |-> res, num_classes |-> NumClasses,
                    warned |-> (b % 3 # 0),
                    machine_indices |-> mi, handwritten_indices |-> hi,
                    out_indices |-> Arange(Len(datasets[3].train_y))]
    /\ tf = NoTransform /\ pixels = NoArray
    /\ load = NoLoad /\ pool = NoPool
    /\ last = NoCall

GenFrame ==
    UNCHANGED <<pc, module, kind, shuffle, resolution, digits, labels,
                train_x, train_y, test_x, test_y, shapes,
                train_indices_by_number, test_indices_by_number, transforms, datasets,
                tf, pixels, load, pool>>

\* BalancedDataGenerator.__len__
Length ==
    /\ pc = "generator"
    /\ last' = [op |-> "__len__", ret |-> GenLen(gen, datasets)]
    /\ UNCHANGED gen
    /\ GenFrame

\* BalancedDataGenerator.__getitem__ for a batch index in [0, len)
GetItem ==
    /\ pc = "generator"
    /\ \E index \in 0..(GenLen(gen, datasets) - 1) :
          LET mini == MiniBatchSize(gen.batch_size)
              mini_last == MiniBatchSizeLast(gen.batch_size)
              mw == Window(gen.machine_indices, index, mini)
              hw == Window(gen.handwritten_indices, index, mini)
              ow == Window(gen.out_indices, index, mini_last)
              x == Take(datasets[1].train_x, mw) \o Take(datasets[2].train_x, hw)
                     \o Take(datasets[3].train_x, ow)
              y == ToCategorical(Take(datasets[1].train_y, mw), gen.num_classes)
                     \o ToCategorical(Take(datasets[2].train_y, hw), gen.num_classes)
                     \o ToCategorical(Take(datasets[3].train_y, ow), gen.num_classes)
              side == datasets[1].resolution
              stackable == /\ datasets[2].resolution = side
                           /\ datasets[3].resolution = side
              cells == Len(x) * side * side
              width == gen.resolution * gen.resolution
          IN  IF ~stackable
              THEN last' = [op |-> "__getitem__", index |-> index, raised |-> "ValueError",
                            taken |-> <<Len(mw), Len(hw), Len(ow)>>,
                            shape |-> << >>, x |-> << >>, y |-> << >>]
              ELSE IF ~gen.flatten
              THEN last' = [op |-> "__getitem__", index |-> index, raised |-> "none",
                            taken |-> <<Len(mw), Len(hw), Len(ow)>>,
                            shape |-> <<Len(x), side, side, 1>>, x |-> Scaled(x), y |-> y]
              ELSE IF cells % width = 0
              THEN last' = [op |-> "__getitem__", index |-> index, raised |-> "none",
                            taken |-> <<Len(mw), Len(hw), Len(ow)>>,
                            shape |-> <<cells \div width, width>>, x |-> Scaled(x), y |-> y]
              ELSE last' = [op |-> "__getitem__", index |-> index, raised |-> "ValueError",
                            taken |-> <<Len(mw), Len(hw), Len(ow)>>,
                            shape |-> << >>, x |-> << >>, y |-> << >>]
    /\ UNCHANGED gen
    /\ GenFrame

\* on_epoch_end leaving the index orders mi (machine) and hi (handwritten)
OnEpochEndTo(mi, hi) ==
    /\ pc = "generator"
    /\ mi \in IndexOrders(Len(datasets[1].train_x), gen.shuffle)
    /\ hi \in IndexOrders(Len(datasets[2].train_y), gen.shuffle)
    /\ gen' = [gen EXCEPT !.machine_indices = mi, !.handwritten_indices = hi]
    /\ last' = [op |-> "on_epoch_end"]
    /\ GenFrame

\* every order of the indices of a source within the bounds
AllOrders == UNION {ShuffleOrders(Arange(n)) : n \in 0..MaxSrc}

\* BalancedDataGenerator.on_epoch_end
OnEpochEnd == \E mi \in AllOrders, hi \in AllOrders : OnEpochEndTo(mi, hi)

NextGen == Length \/ GetItem \/ OnEpochEnd

SpecGen == InitGen /\ [][NextGen]_vars

\* np.random.shuffle draws every permutation with positive probability and
\* keras calls on_epoch_end after every epoch: over endlessly many epochs each
\* outcome of the shuffles comes up
EpochFairness == \A mi \in AllOrders, hi \in AllOrders : WF_vars(OnEpochEndTo(mi, hi))

SpecEpochs == InitGen /\ [][NextGen]_vars /\ EpochFairness

(***************************************************************************)
(* Claims about BalancedDataGenerator, checked under SpecGen               *)
(***************************************************************************)
\* C9: len(generator) is ceil(2 * machine_train_size / batch_size), the least
\* L with L * batch_size >= 2 * machine_train_size, whatever the sizes of the
\* handwritten and out sources; 150 for 900 machine samples in batches of 12.
C9_LenIsCeil ==
    last.op = "__len__" =>
        LET n == Len(datasets[1].train_x)
            b == gen.batch_size
        IN  /\ last.ret * b >= 2 * n
            /\ (last.ret - 1) * b < 2 * n
            /\ CeilDiv(900 * 2, 12) = 150

C9_Witness ==
    /\ last.op = "__len__"
    /\ Len(datasets[1].train_x) = 2 /\ gen.batch_size = 3 /\ last.ret = 2
    /\ Len(datasets[2].train_x) = 0 /\ Len(datasets[3].train_x) = 1

\* the shape of a batch of rows images for the generator g
BatchShape(g, rows) ==
    IF g.flatten THEN <<rows, g.resolution * g.resolution>>
    ELSE <<rows, g.resolution, g.resolution, 1>>

\* C10 as claimed: with handwritten and out sources at least as large as the
\* machine source, every batch index in [0, len) yields exactly batch_size
\* rows of images, in the shape of the flatten flag, and batch_size label rows.
C10_BatchSizeRows ==
    ( /\ last.op = "__getitem__"
      /\ Len(datasets[2].train_x) >= Len(datasets[1].train_x)
      /\ Len(datasets[3].train_x) >= Len(datasets[1].train_x)
      /\ \A a \in 1..3 : datasets[a].resolution = gen.resolution )
    => /\ last.raised = "none"
       /\ last.shape = BatchShape(gen, gen.batch_size)
       /\ Len(last.y) = gen.batch_size

\* C10, amended: over sources of resolution x resolution images a batch has
\* batch_size rows exactly when each source covers its window of the batch:
\* (index + 1) * floor(batch_size / 3) samples of the machine and of the
\* handwritten source, (index + 1) * (batch_size - 2 * floor(batch_size / 3))
\* of the out source; otherwise it has fewer rows, one per sample left.
C10_RowsWhenCovered ==
    ( /\ last.op = "__getitem__"
      /\ \A a \in 1..3 : datasets[a].resolution = gen.resolution )
    => LET b == gen.batch_size
           third == b \div 3
           rest == b - 2 * third
           covered == /\ (last.index + 1) * third <= Len(datasets[1].train_x)
                      /\ (last.index + 1) * third <= Len(datasets[2].train_x)
                      /\ (last.index + 1) * rest <= Len(datasets[3].train_x)
       IN  /\ last.raised = "none"
           /\ Len(last.y) = Len(last.x)
           /\ last.shape = BatchShape(gen, Len(last.x))
           /\ \A p \in 1..Len(last.y) : DOMAIN last.y[p] = 0..(NumClasses - 1)
           /\ Len(last.x) <= b
           /\ (covered <=> Len(last.x) = b)

C10_Witness ==
    /\ last.op = "__getitem__" /\ last.index = 1 /\ last.raised = "none"
    /\ gen.batch_size = 3 /\ gen.flatten
    /\ \A a \in 1..3 : datasets[a].resolution = gen.resolution
    /\ Len(datasets[1].train_x) = 2 /\ Len(datasets[2].train_x) = 2
    /\ Len(datasets[3].train_x) = 2
    /\ last.shape = <<3, 4>> /\ Len(last.y) = 3

\* the samples of a source of n samples inside the window of batch index
\* whose width is size
InWindow(n, index, size) == Min(size, Max(0, n - index * size))

\* C11 as claimed: every batch takes floor(batch_size / 3) samples of the
\* machine source, as many of the handwritten source and
\* batch_size - 2 * floor(batch_size / 3) of the out source, and a batch_size
\* that 3 does not divide is warned about and raises nothing.
C11_TakesThirds ==
    /\ pc = "generator"
    /\ gen.warned <=> (gen.batch_size % 3 # 0)
    /\ last.op = "__getitem__" =>
          last.taken = <<gen.batch_size \div 3, gen.batch_size \div 3,
                         gen.batch_size - 2 * (gen.batch_size \div 3)>>

\* C11, amended: the windows of a batch are floor(batch_size / 3) indices wide
\* for the machine and the handwritten source and
\* batch_size - 2 * floor(batch_size / 3) wide for the out source, and the
\* batch takes the samples a source has inside its window, all of them only
\* while (index + 1) * width does not exceed the size of the source; a
\* batch_size that 3 does not divide is warned about at construction, the
\* generator is constructed all the same and its batches raise nothing.
C11_BatchThirds ==
    /\ pc = "generator"
    /\ gen.warned <=> (gen.batch_size % 3 # 0)
    /\ last.op = "__getitem__" =>
          LET b == gen.batch_size
              third == b \div 3
              rest == b - 2 * third
          IN  /\ last.taken = <<InWindow(Len(datasets[1].train_x), last.index, third),
                                InWindow(Len(datasets[2].train_x), last.index, third),
                                InWindow(Len(datasets[3].train_x), last.index, rest)>>
              /\ (\A a \in 1..3 : datasets[a].resolution = gen.resolution)
                    => last.raised = "none"

C11_Witness ==
    /\ last.op = "__getitem__" /\ last.raised = "none" /\ last.index = 0
    /\ gen.batch_size = 4 /\ gen.warned
    /\ last.taken = <<1, 1, 2>>

(***************************************************************************)
(* Claims about the epochs of BalancedDataGenerator, checked under         *)
(* SpecEpochs                                                              *)
(***************************************************************************)
\* C12: with shuffle enabled every order of the indices of each of the three
\* sources comes into effect in some epoch.
C12_EverySourceShuffled ==
    \A ord \in AllOrders :
        /\ (gen.shuffle /\ Len(ord) = Len(datasets[1].train_x))
              => <>(gen.machine_indices = ord)
        /\ (gen.shuffle /\ Len(ord) = Len(datasets[2].train_x))
              => <>(gen.handwritten_indices = ord)
        /\ (gen.shuffle /\ Len(ord) = Len(datasets[3].train_x))
              => <>(gen.out_indices = ord)

\* the machine and the handwritten source are shuffled as C12 says
MachineAndHandwrittenShuffled ==
    \A ord \in AllOrders :
        /\ (gen.shuffle /\ Len(ord) = Len(datasets[1].train_x))
              => <>(gen.machine_indices = ord)
        /\ (gen.shuffle /\ Len(ord) = Len(datasets[2].train_x))
              => <>(gen.handwritten_indices = ord)

\* the order of the out source is the one of np.arange in every state
OutOrderFixed == gen.out_indices = Arange(Len(datasets[3].train_x))

(***************************************************************************)
(* Claims about the rows of a batch, checked under SpecGen                 *)
(***************************************************************************)
\* the source (1 machine, 2 handwritten, 3 out) row r of the last batch is
\* taken from, by the numbers of samples taken from each
RowSource(r) ==
    IF r <= last.taken[1] THEN 1
    ELSE IF r <= last.taken[1] + last.taken[2] THEN 2 ELSE 3

\* the positions of source a holding the image that, scaled, is row r
RowPositions(a, r) ==
    {p \in 1..Len(datasets[a].train_x) :
        last.x[r] = [datasets[a].train_x[p] EXCEPT !.ops = Append(@, Op("scale", 255))]}

\* C13: the rows of a batch are the machine samples, then the handwritten
\* samples, then the out samples, and row r of the label matrix has 20
\* entries, a single 1 among them, at the label of the image of row r.
C13_RowsAndOneHot ==
    (last.op = "__getitem__" /\ last.raised = "none") =>
        /\ Len(last.x) = last.taken[1] + last.taken[2] + last.taken[3]
        /\ Len(last.y) = Len(last.x)
        /\ \A r \in 1..Len(last.x) :
              /\ RowPositions(RowSource(r), r) # {}
              /\ DOMAIN last.y[r] = 0..19
              /\ \A p \in RowPositions(RowSource(r), r) :
                    \A c \in 0..19 :
                       last.y[r][c] = IF c = datasets[RowSource(r)].train_y[p] THEN 1 ELSE 0

C13_Witness ==
    /\ last.op = "__getitem__" /\ last.raised = "none" /\ last.index = 1
    /\ last.taken = <<1, 1, 1>>
    /\ gen.machine_indices = <<1, 0>> /\ gen.handwritten_indices = <<0, 1>>
    /\ last.x[1].id = 11 /\ last.x[2].id = 22 /\ last.x[3].id = 32
    /\ last.y[1][0] = 1 /\ last.y[2][12] = 1 /\ last.y[3][0] = 1

(***************************************************************************)
(* ImageTransform.apply on one pixel array (simulation/transforms)         *)
(*                                                                         *)
(* An array is a record [shape, px]: shape is its numpy shape, (h, w) or   *)
(* (h, w, c); px[(r - 1) * w + q] is the sequence of the channel values of *)
(* the pixel in row r and column q.  Fractions are records [num, den].     *)
(***************************************************************************)
PixelValues == {0, 7}

\* the number of channel values of one pixel
Channels(shape) == IF Len(shape) = 3 THEN shape[3] ELSE 1

\* img.size over the channels: the number of pixel positions
Positions(shape) == 1..(shape[1] * shape[2])

\* every array of the given shape
Arrays(shape) ==
    {[shape |-> shape, px |-> f] :
        f \in [Positions(shape) -> [1..Channels(shape) -> PixelValues]]}

\* the fields no dataset or generator uses while a transform is applied
NoDataset ==
    /\ module = "simulation"
    /\ kind = "none"
    /\ shuffle = FALSE
    /\ resolution = 0
    /\ digits = << >> /\ labels = << >>
    /\ train_x = << >> /\ train_y = << >>
    /\ test_x = << >> /\ test_y = << >>
    /\ shapes = Unallocated
    /\ train_indices_by_number = EmptyIndex
    /\ test_indices_by_number = EmptyIndex
    /\ transforms = << >>
    /\ datasets = << >>
    /\ gen = NoGen

TransformFrame ==
    UNCHANGED <<pc, module, kind, shuffle, resolution, digits, labels,
                train_x, train_y, test_x, test_y, shapes,
                train_indices_by_number, test_indices_by_number, transforms,
                datasets, gen, tf, load, pool>>

(***************************************************************************)
(* SaltAndPepperNoise                                                      *)
(***************************************************************************)
NoiseShapes == {<<1, 2>>, <<2, 2>>, <<2, 1, 2>>}

\* amount: 0, 0.0, 0.5, 1.0 and the counts 1, 2
Amounts ==
    {[num |-> 0, den |-> 1, float |-> FALSE], [num |-> 0, den |-> 1, float |-> TRUE],
     [num |-> 1, den |-> 2, float |-> TRUE], [num |-> 1, den |-> 1, float |-> TRUE],
     [num |-> 1, den |-> 1, float |-> FALSE], [num |-> 2, den |-> 1, float |-> FALSE]}

\* ratio: 0.0, 0.5, 1.0
Ratios == {[num |-> 0, den |-> 1], [num |-> 1, den |-> 2], [num |-> 1, den |-> 1]}

\* isinstance(self.amount, float) or self.amount < 1
IsFraction(amount) == amount.float \/ amount.num < amount.den

\* num_salt = int(np.ceil(self.amount * img.size * self.ratio)), or without
\* img.size for a count
NumSalt(amount, ratio, size) ==
    IF IsFraction(amount)
    THEN CeilDiv(amount.num * size * ratio.num, amount.den * ratio.den)
    ELSE CeilDiv(amount.num * ratio.num, amount.den * ratio.den)

\* num_pepper, the same with (1. - self.ratio)
NumPepper(amount, ratio, size) ==
    IF IsFraction(amount)
    THEN CeilDiv(amount.num * size * (ratio.den - ratio.num), amount.den * ratio.den)
    ELSE CeilDiv(amount.num * (ratio.den - ratio.num), amount.den * ratio.den)

\* the sets of positions that num index pairs drawn with np.random.choice hit
HitSets(shape, num) ==
    {S \in SUBSET Positions(shape) :
        IF num = 0 THEN S = {} ELSE Cardinality(S) >= 1 /\ Cardinality(S) <= num}

\* img[indices] = value
Painted(px, S, value) ==
    [p \in DOMAIN px |-> IF p \in S THEN [c \in DOMAIN px[p] |-> value] ELSE px[p]]

SaltedBlack(px, S) == Painted(px, S, 0)

\* img[indices] = 255
Salted(px, S) == Painted(px, S, 255)

\* img[indices] = 0
Peppered(px, S) == Painted(px, S, 0)

\* if self.ratio == 1.0: return img
SaltOnly(ratio) == ratio.num = ratio.den

InitNoise ==
    /\ pc = "transform"
    /\ NoDataset
    /\ load = NoLoad /\ pool = NoPool
    /\ \E amount \in Amounts, ratio \in Ratios :
          tf = [name |-> "SaltAndPepperNoise", amount |-> amount, ratio |-> ratio]
    /\ \E shape \in NoiseShapes : pixels \in Arrays(shape)
    /\ last = NoCall

\* SaltAndPepperNoise.apply: img.copy() is painted, the caller's array is not
SaltAndPepperApply ==
    /\ pc = "transform"
    /\ tf.name = "SaltAndPepperNoise"
    /\ LET size == Cardinality(Positions(pixels.shape)) * Channels(pixels.shape)
       IN  \E S \in HitSets(pixels.shape, NumSalt(tf.amount, tf.ratio, size)) :
              IF SaltOnly(tf.ratio)
              THEN last' = [op |-> "apply", input |-> pixels,
                            ret |-> [shape |-> pixels.shape, px |-> Salted(pixels.px, S)]]
              ELSE \E P \in HitSets(pixels.shape, NumPepper(tf.amount, tf.ratio, size)) :
                      last' = [op |-> "apply", input |-> pixels,
                               ret |-> [shape |-> pixels.shape,
                                        px |-> Peppered(Salted(pixels.px, S), P)]]
    /\ UNCHANGED pixels
    /\ TransformFrame

NextNoise == SaltAndPepperApply

SpecNoise == InitNoise /\ [][NextNoise]_vars

\* C14: with amount 0 the returned image equals the input whatever the ratio;
\* with ratio 1.0 every 0 of the returned image was a 0 of the input; the
\* array handed in is as it was.
C14_SaltAndPepper ==
    last.op = "apply" =>
        /\ tf.amount.num = 0 => last.ret = last.input
        /\ SaltOnly(tf.ratio) =>
              \A p \in DOMAIN last.ret.px : \A c \in DOMAIN last.ret.px[p] :
                 last.ret.px[p][c] = 0 => last.input.px[p][c] = 0
        /\ pixels = last.input
        /\ last.ret.shape = last.input.shape

C14_Witness ==
    /\ last.op = "apply"
    /\ tf.ratio = [num |-> 1, den |-> 1] /\ tf.amount.num = 2
    /\ last.ret # last.input
    /\ \E p \in DOMAIN last.ret.px : last.ret.px[p][1] = 0

C14_WitnessAmountZero ==
    /\ last.op = "apply"
    /\ tf.amount.num = 0 /\ tf.ratio = [num |-> 1, den |-> 2]
    /\ \E p \in DOMAIN last.ret.px : last.ret.px[p][1] = 7

(***************************************************************************)
(* Geometric transforms: RandomPerspectiveTransform, its Backwards, X and  *)
(* Y variants, and LensDistortion                                          *)
(***************************************************************************)
PerspectiveNames ==
    {"RandomPerspectiveTransform", "RandomPerspectiveTransformBackwards",
     "RandomPerspectiveTransformX", "RandomPerspectiveTransformY"}

GeometricShapes == {<<2, 2>>, <<2, 3>>, <<5, 5>>, <<5, 3>>, <<2, 2, 3>>, <<3, 2, 3>>}

\* max_shift: 0.25, the default
MaxShifts == {[num |-> 1, den |-> 4]}

\* the arrays of the given shape whose pixels all have one value
UniformArrays(shape) ==
    {[shape |-> shape, px |-> [p \in Positions(shape) |-> [c \in 1..Channels(shape) |-> v]]] :
        v \in PixelValues}

\* np.random.randint(0, np.floor(dim * self.max_shift) + 1, 4)
Displacements(dim, max_shift) == [1..4 -> 0..((dim * max_shift.num) \div max_shift.den)]

\* np.zeros(4)
NoDisplacement == {[p \in 1..4 |-> 0]}

\* get_x_displacement of the transform named name
XDisplacements(name, x_dim, max_shift) ==
    IF name = "RandomPerspectiveTransformY" THEN NoDisplacement
    ELSE Displacements(x_dim, max_shift)

\* get_y_displacement of the transform named name
YDisplacements(name, y_dim, max_shift) ==
    IF name = "RandomPerspectiveTransformX" THEN NoDisplacement
    ELSE Displacements(y_dim, max_shift)

\* the channel axis of shape, if any
ChannelAxis(shape) == IF Len(shape) = 3 THEN <<shape[3]>> ELSE << >>

\* the shape cv2.warpPerspective(img, mat, dsize = img.shape[:2]) returns:
\* cv2 reads dsize as (width, height), so it returns dsize[1] rows of
\* dsize[0] columns
WarpShape(shape) == <<shape[2], shape[1]>> \o ChannelAxis(shape)

\* the shape cv2.undistort returns: the size of its source
UndistortShape(shape) == <<shape[1], shape[2]>> \o ChannelAxis(shape)

InitGeometric ==
    /\ pc = "transform"
    /\ NoDataset
    /\ load = NoLoad /\ pool = NoPool
    /\ \/ \E name \in PerspectiveNames, max_shift \in MaxShifts :
             tf = [name |-> name, max_shift |-> max_shift]
       \/ tf = [name |-> "LensDistortion"]
    /\ \E shape \in GeometricShapes : pixels \in UniformArrays(shape)
    /\ last = NoCall

\* RandomPerspectiveTransform.apply, inherited by the three variants
PerspectiveApply ==
    /\ pc = "transform"
    /\ tf.name \in PerspectiveNames
    /\ \E x_pos \in XDisplacements(tf.name, pixels.shape[1] - 1, tf.max_shift),
          y_pos \in YDisplacements(tf.name, pixels.shape[2] - 1, tf.max_shift) :
          last' = [op |-> "apply", input |-> pixels, x_pos |-> x_pos, y_pos |-> y_pos,
                   shape |-> WarpShape(pixels.shape)]
    /\ UNCHANGED pixels
    /\ TransformFrame

\* LensDistortion.apply
LensDistortionApply ==
    /\ pc = "transform"
    /\ tf.name = "LensDistortion"
    /\ last' = [op |-> "apply", input |-> pixels, shape |-> UndistortShape(pixels.shape)]
    /\ UNCHANGED pixels
    /\ TransformFrame

NextGeometric == PerspectiveApply \/ LensDistortionApply

SpecGeometric == InitGeometric /\ [][NextGeometric]_vars

\* C15: whatever the image and the geometric transform, the array returned
\* has the shape of the array handed in.
C15_ShapePreserved == last.op = "apply" => last.shape = last.input.shape

\* the shape is preserved by LensDistortion, and by the perspective
\* transforms on images as high as wide
ShapePreservedWhenSquare ==
    (last.op = "apply"
       /\ (tf.name = "LensDistortion" \/ last.input.shape[1] = last.input.shape[2]))
    => last.shape = last.input.shape

(***************************************************************************)
(* Every dataset subtype of "simulation" after construction, and the calls *)
(* add_transforms, apply_transforms, resize, invert and cvt_color          *)
(***************************************************************************)
\* cv2.resize(img, (28, 28), ...) of RealDataset._load, at the scale of Resolutions
RealSide == 2

CallKinds == {"Curated", "Empty", "Real", "RealValidation"}

\* the images a loader hands to _split, and their shape past the first axis:
\* RealDataset resizes to RealSide whatever self.resolution is, and
\* np.array([]) of no image has one axis
LoadedImages(knd, n, res) ==
    IF knd = "Empty" THEN Zeros(n, res)
    ELSE IF knd \in {"Real", "RealValidation"} THEN Loaded(n, RealSide)
    ELSE Loaded(n, res)

LoadedTail(knd, n, res) ==
    IF knd \in {"Real", "RealValidation"}
    THEN (IF n = 0 THEN << >> ELSE <<RealSide, RealSide>>)
    ELSE <<res, res>>

LoadedLabels(knd, n) == [p \in 1..n |-> IF knd = "Empty" THEN CLASS_EMPTY ELSE 1 + (p % 2)]

InitCalls ==
    /\ pc = "ready"
    /\ \/ module = "simulation" /\ kind \in CallKinds
       \/ module = "digit" /\ kind = "Curated"
    /\ shuffle = FALSE
    /\ resolution \in Resolutions
    /\ \E n \in 0..MaxLoad :
          /\ digits = LoadedImages(kind, n, resolution)
          /\ labels = LoadedLabels(kind, n)
          /\ LET train_count == IF kind = "RealValidation" THEN 0 ELSE TrainCount(n)
                 indices == Arange(n)
                 tail == LoadedTail(kind, n, resolution)
             IN  /\ train_x = Take(digits, TrainPart(indices, train_count))
                 /\ train_y = Take(labels, TrainPart(indices, train_count))
                 /\ test_x = Take(digits, TestPart(indices, train_count))
                 /\ test_y = Take(labels, TestPart(indices, train_count))
                 /\ shapes = [train |-> IF kind = "RealValidation" THEN << >> ELSE tail,
                              test |-> tail]
    /\ train_indices_by_number = BuiltIndex(module, kind, train_y)
    /\ test_indices_by_number = BuiltIndex(module, kind, test_y)
    /\ transforms = << >>
    /\ datasets = << >>
    /\ gen = NoGen
    /\ tf = NoTransform /\ pixels = NoArray
    /\ load = NoLoad /\ pool = NoPool
    /\ last = NoCall

\* cv2.bitwise_not(data, data) on every image of data
Inverted(x) == [p \in 1..Len(x) |-> [x[p] EXCEPT !.ops = Append(@, Op("invert", 0))]]

\* whether cv2.bitwise_not accepts an array: one with images is inverted;
\* what OpenCV does with an array of no elements is not fixed by this code
BitwiseNotAccepts(x) == IF Len(x) = 0 THEN BOOLEAN ELSE {TRUE}

\* CharacterDataset.invert: train_x, then test_x
Invert ==
    /\ pc = "ready" /\ module = "simulation"
    /\ MostOps(train_x, test_x) < MaxOps
    /\ \E ok_train \in BitwiseNotAccepts(train_x), ok_test \in BitwiseNotAccepts(test_x) :
          /\ train_x' = (IF ok_train THEN Inverted(train_x) ELSE train_x)
          /\ test_x' = (IF ok_train /\ ok_test THEN Inverted(test_x) ELSE test_x)
          /\ last' = [op |-> "invert",
                      raised |-> IF ok_train /\ ok_test THEN "none" ELSE "cv2.error"]
    /\ Fixed
    /\ UNCHANGED <<resolution, train_y, test_y, shapes, train_indices_by_number,
                   test_indices_by_number, transforms>>

\* data.repeat(4).reshape(n, h, w, 4) with data[:, :, :, 3] = alpha
WithColorspace(x) ==
    [p \in 1..Len(x) |-> [x[p] EXCEPT !.ops = Append(@, Op("cvt_color", "GRAY2BGRA"))]]

\* the outcomes of _get_with_colorspace(data, cv2.COLOR_GRAY2BGRA): an array
\* of gray images is converted; one of four axes fails in reshape, one of one
\* axis at shape[1]; for no gray image it rests on cv2.bitwise_not
ColorspaceAccepts(x, tail) ==
    IF Len(tail) # 2 THEN {FALSE}
    ELSE IF Len(x) = 0 THEN BOOLEAN ELSE {TRUE}

\* CharacterDataset.cvt_color(cv2.COLOR_GRAY2BGRA): train_x, then test_x
CvtColor ==
    /\ pc = "ready" /\ module = "simulation"
    /\ MostOps(train_x, test_x) < MaxOps
    /\ \E ok_train \in ColorspaceAccepts(train_x, shapes.train),
          ok_test \in ColorspaceAccepts(test_x, shapes.test) :
          /\ train_x' = (IF ok_train THEN WithColorspace(train_x) ELSE train_x)
          /\ test_x' = (IF ok_train /\ ok_test THEN WithColorspace(test_x) ELSE test_x)
          /\ shapes' = [train |-> IF ok_train THEN shapes.train \o <<4>> ELSE shapes.train,
                        test |-> IF ok_train /\ ok_test THEN shapes.test \o <<4>>
                                 ELSE shapes.test]
          /\ last' = [op |-> "cvt_color",
                      raised |-> IF ok_train /\ ok_test THEN "none" ELSE "error"]
    /\ Fixed
    /\ UNCHANGED <<resolution, train_y, test_y, train_indices_by_number,
                   test_indices_by_number, transforms>>

NextCalls == AddTransforms \/ ApplyTransforms \/ Resize \/ Invert \/ CvtColor

SpecCalls == InitCalls /\ [][NextCalls]_vars

\* C16: after construction and after any calls of add_transforms,
\* apply_transforms, resize, invert and cvt_color the train images are as many
\* as the train labels and the test images as many as the test labels.
C16_ContainersPaired ==
    /\ Len(train_x) = Len(train_y)
    /\ Len(test_x) = Len(test_y)

C16_Witness ==
    /\ kind = "Real" /\ last.op = "apply_transforms" /\ last.raised = "none"
    /\ last.k = 2 /\ ~last.keep
    /\ Len(train_x) = 4 /\ Len(train_y) = 4 /\ Len(test_x) = 2
    /\ \E p \in 1..Len(train_x) : \E o \in 1..Len(train_x[p].ops) :
          train_x[p].ops[o].name = "invert"

\* every stored image is as high and as wide as the resolution field says
SidesAreResolution ==
    /\ \A p \in 1..Len(train_x) : train_x[p].side = resolution
    /\ \A p \in 1..Len(test_x) : test_x[p].side = resolution

\* C17: for every dataset subtype, RealDataset with any resolution argument
\* included, after construction and after any calls of resize every stored
\* train and test image has height and width equal to the resolution field.
C17_ImagesHaveResolution == pc = "ready" => SidesAreResolution

\* the subtypes other than RealDataset and RealValidationDataset keep C17
SidesAreResolutionUnlessReal ==
    (pc = "ready" /\ kind \notin {"Real", "RealValidation"}) => SidesAreResolution

(***************************************************************************)
(* MNIST, FilteredMNIST and ClassSeparateMNIST of both modules             *)
(***************************************************************************)
MaxMnistTrain == 3     \* most train samples of the MNIST stand-in
MaxMnistTest == 2      \* most test samples of the MNIST stand-in

\* the MNIST classes the stand-in draws its labels from
MnistLabels == {0, 1, 9}

\* CLASS_OUT of the module: 10 in "simulation", 0 in "digit"
ClassOut(mod) == IF mod = "digit" THEN 0 ELSE CLASS_OUT

\* data[mask] for a boolean mask
RECURSIVE BoolIndex(_, _)
BoolIndex(x, mask) ==
    IF x = << >> THEN << >>
    ELSE (IF Head(mask) THEN <<Head(x)>> ELSE << >>) \o BoolIndex(Tail(x), Tail(mask))

PositiveOrZero(y) == [p \in 1..Len(y) |-> y[p] >= 0]

\* filtered = self.train_y > 0
Positive(y) == [p \in 1..Len(y) |-> y[p] > 0]

\* the index MNIST._load builds: a dict in "simulation", a list in "digit",
\* both over range(0, 10)
MnistIndex(y) == [c \in 0..9 |-> FlatNonzero(y, c)]

\* the index FilteredMNIST builds over range(1, 10): a dict with the keys
\* 1..9 in "simulation", a list (positions 0..8) in "digit"
FilteredIndex(mod, y) ==
    IF mod = "simulation" THEN [c \in 1..9 |-> FlatNonzero(y, c)]
    ELSE [i \in 0..8 |-> FlatNonzero(y, i + 1)]

\* self.train_y -= 1, only in "digit"
Reduced(mod, y) == IF mod = "digit" THEN [p \in 1..Len(y) |-> y[p] - 1] ELSE y

\* train_y[train_y == 0] = CLASS_OUT; then train_y[train_y > 0] += 10
Relabelled(mod, y) ==
    LET out == [p \in 1..Len(y) |-> IF y[p] = 0 THEN ClassOut(mod) ELSE y[p]]
    IN  [p \in 1..Len(y) |-> IF out[p] > 0 THEN out[p] + 10 ELSE out[p]]

\* the index ClassSeparateMNIST of "simulation" rebuilds
SeparateIndexKeys == (11..19) \cup {CLASS_OUT}

\* the four containers, as a record
Containers == [train_x |-> train_x, train_y |-> train_y, test_x |-> test_x, test_y |-> test_y]

MnistKinds == {"FilteredMNIST", "ClassSeparateMNIST"}

\* the state MNIST.__init__ leaves, on which the subclass constructors go on
InitMNIST ==
    /\ pc = "mnist"
    /\ module \in {"simulation", "digit"}
    /\ kind \in MnistKinds
    /\ shuffle = TRUE
    /\ resolution = 28
    /\ \E n \in 1..MaxMnistTrain, m \in 1..MaxMnistTest :
          /\ digits = Loaded(n + m, 28)
          /\ labels \in [1..(n + m) -> MnistLabels]
          /\ train_x = PySlice(digits, 0, n) /\ train_y = PySlice(labels, 0, n)
          /\ test_x = PySliceFrom(digits, n) /\ test_y = PySliceFrom(labels, n)
    /\ shapes = Gray(28)
    /\ train_indices_by_number = MnistIndex(train_y)
    /\ test_indices_by_number = MnistIndex(test_y)
    /\ transforms = << >>
    /\ datasets = << >>
    /\ gen = NoGen
    /\ tf = NoTransform /\ pixels = NoArray
    /\ load = NoLoad /\ pool = NoPool
    /\ last = NoCall

MnistFrame ==
    UNCHANGED <<module, kind, shuffle, resolution, digits, labels, shapes, transforms,
                datasets, gen, tf, pixels, load, pool>>

\* FilteredMNIST.__init__ after MNIST.__init__; in "simulation" it is also
\* the first part of ClassSeparateMNIST.__init__
FilteredMNISTInit ==
    /\ pc = "mnist"
    /\ kind = "FilteredMNIST" \/ module = "simulation"
    /\ train_x' = BoolIndex(train_x, Positive(train_y))
    /\ test_x' = BoolIndex(test_x, Positive(test_y))
    /\ \E ty \in {BoolIndex(train_y, Positive(train_y))},
          sy \in {BoolIndex(test_y, Positive(test_y))} :
          /\ train_indices_by_number' = FilteredIndex(module, ty)
          /\ test_indices_by_number' = FilteredIndex(module, sy)
          /\ train_y' = Reduced(module, ty)
          /\ test_y' = Reduced(module, sy)
    /\ last' = [op |-> "FilteredMNIST", mnist |-> Containers]
    /\ pc' = (IF kind = "FilteredMNIST" THEN "ready" ELSE "filtered")
    /\ MnistFrame

\* ClassSeparateMNIST.__init__: after FilteredMNIST.__init__ in "simulation",
\* after MNIST.__init__ in "digit", which does not rebuild the index
ClassSeparateMNISTInit ==
    /\ kind = "ClassSeparateMNIST"
    /\ pc = (IF module = "simulation" THEN "filtered" ELSE "mnist")
    /\ train_y' = Relabelled(module, train_y)
    /\ test_y' = Relabelled(module, test_y)
    /\ IF module = "simulation"
       THEN /\ train_indices_by_number' =
                  [c \in SeparateIndexKeys |-> FlatNonzero(train_y', c)]
            /\ test_indices_by_number' =
                  [c \in SeparateIndexKeys |-> FlatNonzero(test_y', c)]
       ELSE UNCHANGED <<train_indices_by_number, test_indices_by_number>>
    /\ last' = [op |-> "ClassSeparateMNIST",
                mnist |-> IF pc = "filtered" THEN last.mnist ELSE Containers]
    /\ pc' = "ready"
    /\ UNCHANGED <<train_x, test_x>>
    /\ MnistFrame

\* the digits asked of get_random
MnistQueries == {0, 1, 2, 9, 10, 11, 19}

\* whether get_random is the one FilteredMNIST defines: FilteredMNIST of both
\* modules, and ClassSeparateMNIST of "simulation", which inherits it;
\* ClassSeparateMNIST of "digit" has the one of MNIST
FilteredGetRandom(mod, knd) == knd = "FilteredMNIST" \/ mod = "simulation"

\* the key get_random looks up: digit - 1 in FilteredMNIST, digit in MNIST
RandomKey(mod, knd, digit) == IF FilteredGetRandom(mod, knd) THEN digit - 1 ELSE digit

\* the outcome of a call, kept together with the arrays MNIST.__init__ left
WithMnist(o, mnist) ==
    [op |-> o.op, digit |-> o.digit, raised |-> o.raised, position |-> o.position,
     ret |-> o.ret, mnist |-> mnist]

\* FilteredMNIST.get_random and MNIST.get_random on the constructed dataset
MnistGetRandom ==
    /\ pc = "ready"
    /\ \E digit \in MnistQueries :
          IF FilteredGetRandom(module, kind) /\ digit = 0
          THEN last' = [op |-> "get_random", digit |-> digit, raised |-> "ValueError",
                        position |-> -1, ret |-> NoImage, mnist |-> last.mnist]
          ELSE \E o \in RandomOutcomes(module, train_indices_by_number, train_x, digit,
                                       RandomKey(module, kind, digit)) :
                  last' = WithMnist(o, last.mnist)
    /\ UNCHANGED <<pc, train_x, train_y, test_x, test_y, train_indices_by_number,
                   test_indices_by_number>>
    /\ MnistFrame

NextMNIST == FilteredMNISTInit \/ ClassSeparateMNISTInit \/ MnistGetRandom

SpecMNIST == InitMNIST /\ [][NextMNIST]_vars

\* the (image, label) rows of a split
Rows(x, y) == [p \in 1..Len(x) |-> <<x[p], y[p]>>]

\* idx lists, ascending, exactly the Python positions of y holding c
IsIndexOf(idx, y, c) ==
    /\ \A k \in 1..Len(idx) : idx[k] \in 0..(Len(y) - 1) /\ y[idx[k] + 1] = c
    /\ \A k \in 1..(Len(idx) - 1) : idx[k] < idx[k + 1]
    /\ Len(idx) = Cardinality({p \in 1..Len(y) : y[p] = c})

\* C18: after the constructor of FilteredMNIST of "simulation", train and
\* test hold no sample of class 0, every remaining sample keeps its label
\* (1..9) and stays paired with its image, in the order MNIST had them, and
\* the keys of both indices are exactly 1..9, each listing the positions of
\* its class in the filtered label array.
C18_FilteredMNIST ==
    (module = "simulation" /\ kind = "FilteredMNIST" /\ pc = "ready") =>
        /\ Len(train_x) = Len(train_y) /\ Len(test_x) = Len(test_y)
        /\ \A p \in 1..Len(train_y) : train_y[p] \in 1..9
        /\ \A p \in 1..Len(test_y) : test_y[p] \in 1..9
        /\ Rows(train_x, train_y) =
              SelectSeq(Rows(last.mnist.train_x, last.mnist.train_y),
                        LAMBDA row : row[2] # 0)
        /\ Rows(test_x, test_y) =
              SelectSeq(Rows(last.mnist.test_x, last.mnist.test_y),
                        LAMBDA row : row[2] # 0)
        /\ DOMAIN train_indices_by_number = 1..9
        /\ DOMAIN test_indices_by_number = 1..9
        /\ \A c \in 1..9 :
              /\ IsIndexOf(train_indices_by_number[c], train_y, c)
              /\ IsIndexOf(test_indices_by_number[c], test_y, c)

\* a FilteredMNIST of "simulation" that dropped a zero from train and kept a
\* nine behind it
C18_Witness ==
    /\ module = "simulation" /\ kind = "FilteredMNIST" /\ pc = "ready"
    /\ last.mnist.train_y = <<0, 9, 1>>
    /\ train_y = <<9, 1>>
    /\ test_y = <<1>> /\ last.mnist.test_y = <<0, 1>>

\* C19: ClassSeparateMNIST keeps every sample of MNIST, relabels class 0 to
\* the OUT class of its module and class d to d + 10, so that every label is
\* OUT or in 11..19, and its indices list, for every label, the positions
\* of that label.
C19_ClassSeparateMNIST ==
    (kind = "ClassSeparateMNIST" /\ pc = "ready") =>
        /\ train_x = last.mnist.train_x /\ test_x = last.mnist.test_x
        /\ train_y = [p \in 1..Len(last.mnist.train_y) |->
                        IF last.mnist.train_y[p] = 0 THEN ClassOut(module)
                        ELSE last.mnist.train_y[p] + 10]
        /\ test_y = [p \in 1..Len(last.mnist.test_y) |->
                        IF last.mnist.test_y[p] = 0 THEN ClassOut(module)
                        ELSE last.mnist.test_y[p] + 10]
        /\ \A c \in {ClassOut(module)} \cup (11..19) :
              /\ c \in DOMAIN train_indices_by_number
              /\ IsIndexOf(train_indices_by_number[c], train_y, c)
              /\ c \in DOMAIN test_indices_by_number
              /\ IsIndexOf(test_indices_by_number[c], test_y, c)

\* what ClassSeparateMNIST of "simulation" does: the samples of class 0 are
\* gone, the others carry d + 10, and the rebuilt indices match the labels
SimulationSeparateDropsZero ==
    (module = "simulation" /\ kind = "ClassSeparateMNIST" /\ pc = "ready") =>
        /\ Rows(train_x, train_y) =
              SelectSeq(Rows(last.mnist.train_x,
                             [q \in 1..Len(last.mnist.train_y) |->
                                 last.mnist.train_y[q] + 10]),
                        LAMBDA row : row[2] # 10)
        /\ \A c \in SeparateIndexKeys :
              IsIndexOf(train_indices_by_number[c], train_y, c)

\* what ClassSeparateMNIST of "digit" does: every sample is kept and
\* relabelled, and the index is still the one MNIST built over 0..9
DigitSeparateKeepsMnistIndex ==
    (module = "digit" /\ kind = "ClassSeparateMNIST" /\ pc = "ready") =>
        /\ train_x = last.mnist.train_x
        /\ \A p \in 1..Len(train_y) :
              train_y[p] = IF last.mnist.train_y[p] = 0 THEN 0
                           ELSE last.mnist.train_y[p] + 10
        /\ train_indices_by_number = MnistIndex(last.mnist.train_y)

(***************************************************************************)
(* CharacterDataset.induce_alpha and _get_with_alpha ("simulation")        *)
(***************************************************************************)
\* an optional argument: None is the empty set, a given value v is {v}
None == {}

Some(v) == {v}

\* the values the model passes for the three mode arguments
AverageColors == {None, Some(<<0, 1, 2>>)}

AlphaZeroValues == {None, Some(0)}

MaxOfChannels == {None, Some(<<0, 1>>)}

\* how many of the three are not None
Supplied(average_color, alpha_zero_value, max_of_channel) ==
    Cardinality(average_color) + Cardinality(alpha_zero_value) + Cardinality(max_of_channel)

\* if all(p is None for p in [...]): average_color = (0, 1, 2)
DefaultedAverage(average_color, alpha_zero_value, max_of_channel) ==
    IF Supplied(average_color, alpha_zero_value, max_of_channel) = 0
    THEN Some(<<0, 1, 2>>) ELSE average_color

\* the branch of the if / elif chain of _get_with_alpha that runs
AlphaBranch(average_color, alpha_zero_value, max_of_channel) ==
    IF average_color # None THEN "average_color"
    ELSE IF alpha_zero_value # None THEN "alpha_zero_value"
    ELSE IF max_of_channel # None THEN "max_of_channel"
    ELSE "RuntimeError"

\* data[:, :, :, 3] = alpha on every image of data
WithAlpha(x, branch, invert) ==
    [p \in 1..Len(x) |->
        [x[p] EXCEPT !.ops = Append(@, Op("induce_alpha",
                                          [mode |-> branch, invert |-> invert]))]]

\* the outcomes of one _get_with_alpha(data, ...): "RuntimeError" when no
\* branch runs; "IndexError" at data[:, :, :, ...] when data has not four
\* axes; otherwise the alpha channel is written, where the averaging and
\* the maximum branch with invert rest on cv2.bitwise_not, whose answer to
\* an array of no elements is not fixed by this code
AlphaOutcomes(x, tail, branch, invert) ==
    IF branch = "RuntimeError" THEN {"RuntimeError"}
    ELSE IF Len(tail) # 3 THEN {"IndexError"}
    ELSE IF branch # "alpha_zero_value" /\ invert /\ Len(x) = 0 THEN {"none", "cv2.error"}
    ELSE {"none"}

\* CharacterDataset.induce_alpha: train_x, then test_x
InduceAlpha ==
    /\ pc = "ready" /\ module = "simulation"
    /\ MostOps(train_x, test_x) < MaxOps
    /\ \E average_color \in AverageColors, alpha_zero_value \in AlphaZeroValues,
          max_of_channel \in MaxOfChannels, invert \in BOOLEAN :
          \E branch \in {AlphaBranch(DefaultedAverage(average_color, alpha_zero_value,
                                                      max_of_channel),
                                     alpha_zero_value, max_of_channel)} :
          \E on_train \in AlphaOutcomes(train_x, shapes.train, branch, invert),
             on_test \in AlphaOutcomes(test_x, shapes.test, branch, invert) :
             /\ train_x' = (IF on_train = "none" THEN WithAlpha(train_x, branch, invert)
                            ELSE train_x)
             /\ test_x' = (IF on_train = "none" /\ on_test = "none"
                           THEN WithAlpha(test_x, branch, invert) ELSE test_x)
             /\ last' = [op |-> "induce_alpha",
                         average_color |-> average_color,
                         alpha_zero_value |-> alpha_zero_value,
                         max_of_channel |-> max_of_channel,
                         invert |-> invert,
                         branch |-> branch,
                         raised |-> IF on_train # "none" THEN on_train ELSE on_test]
    /\ Fixed
    /\ UNCHANGED <<resolution, train_y, test_y, shapes, train_indices_by_number,
                   test_indices_by_number, transforms>>

NextAlpha == CvtColor \/ InduceAlpha

SpecAlpha == InitCalls /\ [][NextAlpha]_vars

\* a call of induce_alpha with two or three of the modes
SuppliesSeveral ==
    /\ last'.op = "induce_alpha"
    /\ Supplied(last'.average_color, last'.alpha_zero_value, last'.max_of_channel) >= 2

\* C20: a call of induce_alpha that supplies two or three of average_color,
\* alpha_zero_value and max_of_channel is rejected with a fatal error and
\* leaves the stored images unchanged.
C20_SeveralModesRejected ==
    [][(InduceAlpha /\ SuppliesSeveral) =>
          /\ last'.raised # "none"
          /\ train_x' = train_x /\ test_x' = test_x]_vars

\* what the code does with several modes on BGRA images: the first of
\* average_color, alpha_zero_value, max_of_channel that is not None is
\* applied, and no RuntimeError is ever raised through induce_alpha
FirstModeWins ==
    [][InduceAlpha =>
          /\ last'.raised # "RuntimeError"
          /\ last'.branch = (IF last'.average_color # None \/
                                  (last'.alpha_zero_value = None /\
                                   last'.max_of_channel = None)
                             THEN "average_color"
                             ELSE IF last'.alpha_zero_value # None
                             THEN "alpha_zero_value" ELSE "max_of_channel")
          /\ (last'.raised = "none" /\ Len(train_x) > 0) => train_x' # train_x]_vars

\* a call with all three modes on converted images that returned and wrote
\* the averaged alpha
SeveralModesApplied ==
    /\ last.op = "induce_alpha" /\ last.raised = "none"
    /\ Supplied(last.average_color, last.alpha_zero_value, last.max_of_channel) = 3
    /\ Len(train_x) > 0
    /\ train_x[1].ops = <<Op("cvt_color", "GRAY2BGRA"),
                          Op("induce_alpha", [mode |-> "average_color", invert |-> TRUE])>>

(***************************************************************************)
(* RealDataset._load ("simulation")                                        *)
(***************************************************************************)
MaxEntries == 3        \* most entries of the base directory

\* the labels a manifest must hold, and the box images of a sample folder
CellCount == 81

\* an entry of the base directory: whether it is a directory, how many
\* labels its labels.json holds (-1: there is no labels.json), and the
\* number of the first box_i.png that does not exist (CellCount: none)
Entry(is_dir, manifest, first_missing) ==
    [is_dir |-> is_dir, manifest |-> manifest, first_missing |-> first_missing]

Entries ==
    {Entry(FALSE, -1, 0), Entry(TRUE, -1, 0),
     Entry(TRUE, CellCount - 1, CellCount), Entry(TRUE, CellCount + 1, 0),
     Entry(TRUE, CellCount, CellCount),
     Entry(TRUE, CellCount, 0), Entry(TRUE, CellCount, CellCount - 1)}

\* sorted(set(os.listdir(self.base_path))), entry by entry
Listings == UNION {[1..n -> Entries] : n \in 0..MaxEntries}

\* the i-th label of the manifest of entry e, and its i-th box image after
\* cv2.resize(img, (28, 28))
ManifestLabel(e, i) == (e + i) % 11

ManifestLabels(e, count) == [p \in 1..count |-> ManifestLabel(e, p - 1)]

BoxImage(e, i) == Image(100 * e + i + 1, RealSide)

BoxImages(e, count) == [p \in 1..count |-> BoxImage(e, p - 1)]

\* folder_path.is_dir() and labels_path.exists()
HasManifest(entry) == entry.is_dir /\ entry.manifest >= 0

MismatchAccepted(entry) == FALSE

\* len(_labels) != 81
Mismatch(entry) == entry.manifest # CellCount

\* labels[idx_0] = 10; labels[idx_10] = 0, when has_old_scheme
OldScheme(y, has_old_scheme) ==
    IF has_old_scheme
    THEN [p \in 1..Len(y) |-> IF y[p] = 0 THEN 10 ELSE IF y[p] = 10 THEN 0 ELSE y[p]]
    ELSE y

\* the orders of np.random.shuffle the model follows for the long index
\* arrays of this loader: the order kept, reversed, and rotated by one
Reversed(idx) == [p \in 1..Len(idx) |-> idx[Len(idx) + 1 - p]]

Rotated(idx) == [p \in 1..Len(idx) |-> idx[(p % Len(idx)) + 1]]

SampledOrders(idx) == {idx, Reversed(idx), Rotated(idx)}

InitReal ==
    /\ pc = "loading"
    /\ module = "simulation"
    /\ kind \in {"Real", "RealValidation"}
    /\ shuffle = TRUE
    /\ resolution \in Resolutions
    /\ digits = << >> /\ labels = << >>
    /\ train_x = << >> /\ train_y = << >>
    /\ test_x = << >> /\ test_y = << >>
    /\ shapes = Unallocated
    /\ train_indices_by_number = EmptyIndex
    /\ test_indices_by_number = EmptyIndex
    /\ transforms = << >>
    /\ datasets = << >>
    /\ gen = NoGen
    /\ tf = NoTransform /\ pixels = NoArray
    /\ \E entries \in Listings, has_old_scheme \in BOOLEAN :
          load = [entries |-> entries, at |-> 1, images |-> << >>, labels |-> << >>,
                  warned |-> << >>, has_old_scheme |-> has_old_scheme]
    /\ pool = NoPool
    /\ last = NoCall

RealFrame ==
    UNCHANGED <<module, kind, shuffle, resolution, train_indices_by_number,
                test_indices_by_number, transforms, datasets, gen, tf, pixels, pool>>

\* one pass of the loop of RealDataset._load over the directory entries
LoadEntry ==
    /\ pc = "loading"
    /\ load.at <= Len(load.entries)
    /\ LET e == load.at
           entry == load.entries[e]
       IN  IF ~HasManifest(entry)
           THEN /\ load' = [load EXCEPT !.at = e + 1]
                /\ pc' = pc
                /\ last' = [op |-> "_load", entry |-> e, outcome |-> "ignored"]
           ELSE IF Mismatch(entry)
           THEN /\ load' = [load EXCEPT !.at = e + 1, !.warned = Append(@, e)]
                /\ pc' = pc
                /\ last' = [op |-> "_load", entry |-> e, outcome |-> "skipped"]
           ELSE IF entry.first_missing < CellCount
           THEN /\ load' = [load EXCEPT
                               !.labels = @ \o ManifestLabels(e, entry.manifest),
                               !.images = @ \o BoxImages(e, entry.first_missing)]
                /\ pc' = "failed"
                /\ last' = [op |-> "_load", entry |-> e, outcome |-> "RuntimeError"]
           ELSE /\ load' = [load EXCEPT
                               !.at = e + 1,
                               !.labels = @ \o ManifestLabels(e, entry.manifest),
                               !.images = @ \o BoxImages(e, CellCount)]
                /\ pc' = pc
                /\ last' = [op |-> "_load", entry |-> e, outcome |-> "loaded"]
    /\ UNCHANGED <<digits, labels, train_x, train_y, test_x, test_y, shapes>>
    /\ RealFrame

\* the end of RealDataset._load: the arrays are built and handed to _split
\* of CharacterDataset or of RealValidationDataset
LoadFinish ==
    /\ pc = "loading"
    /\ load.at > Len(load.entries)
    /\ Len(load.images) = Len(load.labels)
    /\ digits' = load.images
    /\ labels' = OldScheme(load.labels, load.has_old_scheme)
    /\ LET all_count == Len(load.images)
           tail == IF all_count = 0 THEN << >> ELSE <<RealSide, RealSide>>
       IN  IF kind = "RealValidation"
           THEN /\ train_x' = << >> /\ train_y' = << >>
                /\ test_x' = digits' /\ test_y' = labels'
                /\ shapes' = [train |-> << >>, test |-> tail]
           ELSE \E indices \in SampledOrders(Arange(all_count)) :
                   /\ train_x' = Take(digits', TrainPart(indices, TrainCount(all_count)))
                   /\ train_y' = Take(labels', TrainPart(indices, TrainCount(all_count)))
                   /\ test_x' = Take(digits', TestPart(indices, TrainCount(all_count)))
                   /\ test_y' = Take(labels', TestPart(indices, TrainCount(all_count)))
                   /\ shapes' = [train |-> tail, test |-> tail]
    /\ load' = [load EXCEPT !.at = Len(load.entries) + 1]
    /\ pc' = "ready"
    /\ last' = [op |-> "_load", entry |-> 0, outcome |-> "done"]
    /\ RealFrame

NextReal == LoadEntry \/ LoadFinish

SpecReal == InitReal /\ [][NextReal]_vars

\* the members of a set of numbers, ascending
Ascending(S) ==
    [k \in 1..Cardinality(S) |-> CHOOSE i \in S : Cardinality({j \in S : j < i}) = k - 1]

\* the positions before `at` of the sample folders whose manifest holds
\* exactly 81 labels, and of those whose manifest holds another number
ValidBefore(at) ==
    {e \in 1..(at - 1) : load.entries[e].is_dir /\ load.entries[e].manifest = 81}

MismatchedBefore(at) ==
    {e \in 1..(at - 1) : load.entries[e].is_dir /\ load.entries[e].manifest >= 0
                            /\ load.entries[e].manifest # 81}

\* C21: while RealDataset._load walks the directory, a folder whose manifest
\* has not exactly 81 labels adds no image and no label and does not abort
\* the load (it is only warned about); every folder with 81 labels passed so
\* far has added its 81 images and its 81 labels, in order; and a load that
\* completes hands as many images as labels to _split, 81 for each such
\* folder, all of which end up in the train and test containers.
C21_MismatchSkipped ==
    pc \in {"loading", "ready", "failed"} =>
        LET V == Ascending(ValidBefore(load.at))
        IN  /\ load.warned = Ascending(MismatchedBefore(load.at))
            /\ pc = "failed" =>
                  /\ load.entries[load.at].manifest = 81
                  /\ load.entries[load.at].first_missing < 81
            /\ pc # "failed" =>
                  /\ Len(load.images) = 81 * Len(V)
                  /\ Len(load.labels) = 81 * Len(V)
                  /\ \A k \in 1..Len(V), i \in 0..80 :
                        /\ load.images[81 * (k - 1) + i + 1].id = 100 * V[k] + i + 1
                        /\ load.labels[81 * (k - 1) + i + 1] = (V[k] + i) % 11
            /\ pc = "ready" =>
                  /\ Len(digits) = 81 * Len(V) /\ Len(labels) = 81 * Len(V)
                  /\ Len(train_x) + Len(test_x) = Len(digits)
                  /\ Len(train_y) + Len(test_y) = Len(labels)
                  /\ Len(train_x) = Len(train_y) /\ Len(test_x) = Len(test_y)

\* a completed load over a folder with 80 labels, a folder with 81 and a
\* folder with 82: only the second one was loaded
C21_Witness ==
    /\ pc = "ready"
    /\ Len(load.entries) = 3
    /\ load.entries[1].manifest = 80 /\ load.entries[3].manifest = 82
    /\ load.warned = <<1, 3>>
    /\ Len(digits) = 81 /\ Len(labels) = 81
    /\ digits[1].id = 201

(***************************************************************************)
(* Claims about get_random and get_ordered                                 *)
(***************************************************************************)
\* C22: get_random(class_id), for a class_id that has samples in the train
\* split, returns a train image whose label is class_id, drawn from the
\* index list of class_id; so FilteredMNIST.get_random(d) returns an image
\* labelled d.
C22_GetRandomLabelled ==
    (last.op = "get_random" /\ last.digit \in Range(train_y)) =>
        /\ last.raised = "none"
        /\ last.digit \in DOMAIN train_indices_by_number
        /\ last.position \in Range(train_indices_by_number[last.digit])
        /\ train_y[last.position + 1] = last.digit
        /\ last.ret = train_x[last.position + 1]

\* what FilteredMNIST.get_random of "simulation" does: it draws from the
\* index list of digit - 1, so it never returns an image labelled digit
FilteredDrawsNeighbour ==
    (module = "simulation" /\ last.op = "get_random" /\ last.raised = "none") =>
        /\ last.position \in Range(train_indices_by_number[last.digit - 1])
        /\ train_y[last.position + 1] = last.digit - 1

\* get_random of CuratedCharactersDataset ("simulation"), which has no
\* get_random of its own, returns an image labelled class_id
CuratedGetRandomLabelled ==
    (last.op = "get_random" /\ last.raised = "none") =>
        /\ train_y[last.position + 1] = last.digit
        /\ last.ret = train_x[last.position + 1]

\* C23: in "simulation", get_random(class_id) for a class_id that has no
\* train sample or is no key of the index fails, and
\* FilteredMNIST.get_random(0) fails with ValueError; the call changes
\* nothing of the dataset.
C23_AbsentClassFails ==
    [][(module = "simulation" /\ last'.op = "get_random" /\
        (last'.digit \notin Range(train_y) \/
         last'.digit \notin DOMAIN train_indices_by_number)) =>
          /\ last'.raised # "none"
          /\ (kind = "FilteredMNIST" /\ last'.digit = 0) => last'.raised = "ValueError"
          /\ UNCHANGED <<train_x, train_y, test_x, test_y, train_indices_by_number,
                         test_indices_by_number, transforms, resolution>>]_vars

\* get_ordered and get_random of CharacterDataset ("simulation") fail with
\* KeyError for a class that is no key of the index, and with IndexError
\* and ValueError for a key whose list is empty; FilteredMNIST.get_random(0)
\* fails with ValueError; none of them changes the dataset
BaseAbsentClassFails ==
    [][(last'.op \in {"get_random", "get_ordered"}) =>
          /\ last'.digit \notin DOMAIN train_indices_by_number =>
                last'.raised = "KeyError"
          /\ (last'.digit \in DOMAIN train_indices_by_number /\
              Len(train_indices_by_number[last'.digit]) = 0) =>
                last'.raised \in {"IndexError", "ValueError"}
          /\ UNCHANGED <<train_x, train_y, test_x, test_y, train_indices_by_number,
                         test_indices_by_number, transforms, resolution>>]_vars

FilteredZeroFails ==
    [][(last'.op = "get_random" /\ last'.digit = 0 /\ kind = "FilteredMNIST") =>
          /\ last'.raised = "ValueError"
          /\ UNCHANGED <<train_x, train_y, test_x, test_y, train_indices_by_number,
                         test_indices_by_number>>]_vars

(***************************************************************************)
(* Claims about the transform queue, checked under Spec                    *)
(***************************************************************************)
\* a call of apply_transforms of "simulation" that returned
Returned(call) == call.op = "apply_transforms" /\ call.raised = "none"

C24_WitnessCleared ==
    /\ module = "simulation" /\ Returned(last) /\ last.k = 0
    /\ Len(train_x) = 2 /\ Len(train_x[2].ops) = 1
    /\ transforms = << >>

(***************************************************************************)
(* Claims about the per-class index, checked under Spec                    *)
(***************************************************************************)
\* the index lists, for every class among the labels y, exactly the
\* positions of that class
IndexMatches(index, y) ==
    \A c \in Range(y) : c \in DOMAIN index /\ IsIndexOf(index[c], y, c)

\* C25: after construction and after every operation, the train index
\* lists for every class among the train labels exactly the positions of
\* that class, in order, and the test index does so for the test labels.
C25_IndexFollowsLabels ==
    pc = "ready" =>
        /\ IndexMatches(train_indices_by_number, train_y)
        /\ IndexMatches(test_indices_by_number, test_y)

\* what holds instead: CuratedCharactersDataset of "simulation" has a
\* matching index until the first apply_transforms that adds samples, and
\* no operation ever writes an index
CuratedIndexUntilExpanded ==
    (module = "simulation" /\ kind = "Curated" /\ Len(train_y) + Len(test_y) = Len(labels)) =>
        /\ IndexMatches(train_indices_by_number, train_y)
        /\ IndexMatches(test_indices_by_number, test_y)

IndexNeverWritten ==
    [][UNCHANGED <<train_indices_by_number, test_indices_by_number>>]_vars

\* an expanded CuratedCharactersDataset whose index still lists one position
\* for a class that now has two
StaleIndexReached ==
    /\ module = "simulation" /\ kind = "Curated"
    /\ train_y = <<1, 1>>
    /\ train_indices_by_number[1] = <<0>>

(***************************************************************************)
(* One p_map call of _get_resized, _get_with_colorspace or                 *)
(* apply_transforms, and the copy loop that follows it                     *)
(***************************************************************************)
MaxPool == 4           \* most images handed to one p_map call

\* the per-image functions handed to p_map: _do_resize, _do_cvtcolor and
\* _apply_transforms
PoolCalls ==
    {[fn |-> "resize", arg |-> 3], [fn |-> "cvt_color", arg |-> 0],
     [fn |-> "apply", arg |-> 1], [fn |-> "apply", arg |-> 2]}

\* what a worker returns for one image
PoolWork(call, img) ==
    IF call.fn = "resize" THEN CvResize(img, call.arg)
    ELSE IF call.fn = "cvt_color" THEN [img EXCEPT !.ops = Append(@, Op("cvt_color", "mode"))]
    ELSE ApplySeq(IF call.arg = 1 THEN <<"perspective">> ELSE <<"noise", "perspective">>, img)

\* the list p_map returns once every worker has answered
GatheredAsFinished(results, finished) == [k \in 1..Len(finished) |-> results[finished[k]]]

\* p_map is the ordered map of p_tqdm: the answers in the order of the inputs
Gathered(results, finished) == [k \in 1..Len(finished) |-> results[k]]

InitPool ==
    /\ pc = "pool"
    /\ NoDataset
    /\ tf = NoTransform /\ pixels = NoArray
    /\ load = NoLoad
    /\ \E call \in PoolCalls, n \in 0..MaxPool :
          pool = [call |-> call,
                  inputs |-> Loaded(n, 2),
                  results |-> [i \in {} |-> NoImage],
                  finished |-> << >>,
                  out |-> Zeros(n, IF call.fn = "resize" THEN call.arg ELSE 2)]
    /\ last = NoCall

PoolFrame ==
    UNCHANGED <<module, kind, shuffle, resolution, digits, labels,
                train_x, train_y, test_x, test_y, shapes,
                train_indices_by_number, test_indices_by_number, transforms,
                datasets, gen, tf, pixels, load>>

\* a worker process answers for input i: it works on its own copy of the
\* image and writes nothing but its answer
WorkerFinish(i) ==
    /\ pc = "pool"
    /\ i \in (1..Len(pool.inputs)) \ DOMAIN pool.results
    /\ pool' = [pool EXCEPT
                   !.results = [j \in DOMAIN pool.results \cup {i} |->
                                   IF j = i THEN PoolWork(pool.call, pool.inputs[i])
                                   ELSE pool.results[j]],
                   !.finished = Append(@, i)]
    /\ last' = [op |-> "worker", input |-> i]
    /\ UNCHANGED pc
    /\ PoolFrame

\* p_map returns, and the loop copies its list into the allocated array
PoolCollect ==
    /\ pc = "pool"
    /\ DOMAIN pool.results = 1..Len(pool.inputs)
    /\ pool' = [pool EXCEPT !.out = Gathered(pool.results, pool.finished)]
    /\ last' = [op |-> "p_map"]
    /\ pc' = "done"
    /\ PoolFrame

NextPool == (\E i \in 1..MaxPool : WorkerFinish(i)) \/ PoolCollect

SpecPool == InitPool /\ [][NextPool]_vars

\* C26: whatever the order in which the workers of a p_map call finish, the
\* array filled afterwards holds at position i the result for input image i;
\* the array is written only after every worker has answered, and a worker
\* writes nothing but its own answer.
C26_ResultsInInputOrder ==
    [][/\ pc' = "done" =>
             /\ Len(pool'.out) = Len(pool'.inputs)
             /\ \A i \in 1..Len(pool'.inputs) :
                   pool'.out[i] = PoolWork(pool'.call, pool'.inputs[i])
       /\ pool'.out # pool.out => DOMAIN pool.results = 1..Len(pool.inputs)
       /\ pool'.inputs = pool.inputs
       /\ (\E i \in 1..MaxPool : WorkerFinish(i)) =>
             /\ pool'.out = pool.out
             /\ \A j \in DOMAIN pool.results : pool'.results[j] = pool.results[j]]_vars

\* three images resized by workers that finished in the order 3, 1, 2
C26_Witness ==
    /\ pc = "done"
    /\ pool.call.fn = "resize"
    /\ pool.finished = <<3, 1, 2>>
    /\ pool.out[1].id = 1 /\ pool.out[1].side = 3 /\ pool.out[3].id = 3

(***************************************************************************)
(* Photometric transforms: UniformNoise, GaussianNoise, SpeckleNoise and   *)
(* the kernel filters of filter.py                                         *)
(*                                                                         *)
(* The image is a gray row of two pixels.  Floats are modelled by integers *)
(***************************************************************************)
MaxIterations == 2     \* most iterations of a filter

PhotoNames == {"UniformNoise", "GaussianNoise", "SpeckleNoise", "SharpenFilter"}

PhotoValues == {0, 100, 255}

\* the values np.random.uniform / np.random.normal contribute to one pixel
NoiseValues == {-300, -16, 0, 16, 300}

PhotoShape == <<1, 2>>

PhotoArrays ==
    {[shape |-> PhotoShape, px |-> [p \in 1..2 |-> <<f[p]>>]] : f \in [1..2 -> PhotoValues]}

\* np.clip(v, 0, 255)
Clip(v) == IF v < 0 THEN 0 ELSE IF v > 255 THEN 255 ELSE v

\* float64.astype(np.uint8) of one value: exact inside 0..255; outside, the
\* C conversion is undefined and the build decides: it wraps modulo 256 or
\* it saturates
AsUint8(v) == IF v \in 0..255 THEN {v} ELSE {v % 256, Clip(v)}

\* cv2.filter2D(img, -1, kernel) with the 3x3 sharpening kernel and the
\* default border (reflect 101) on a row of two pixels: the rows above and
\* below mirror the row itself, the columns left and right the other pixel
Sharpened(v) == <<5 * v[1] - 2 * v[1] - 2 * v[2], 5 * v[2] - 2 * v[2] - 2 * v[1]>>

RECURSIVE SharpenedTimes(_, _)
SharpenedTimes(v, iterations) ==
    IF iterations = 0 THEN v ELSE SharpenedTimes(Sharpened(v), iterations - 1)

\* the float array a transform computes before its last step
Computed(t, v, noise) ==
    IF t.name = "SharpenFilter" THEN SharpenedTimes(v, t.iterations)
    ELSE IF t.name = "SpeckleNoise" THEN [p \in 1..2 |-> v[p] + v[p] * noise[p]]
    ELSE [p \in 1..2 |-> v[p] + noise[p]]

\* the last step: UniformNoise returns the clipped float array,
\* GaussianNoise and SpeckleNoise clip and cast, Filter.apply casts only
Returns(t, computed) ==
    IF t.name = "UniformNoise"
    THEN {[dtype |-> "float64", px |-> [p \in 1..2 |-> Clip(computed[p])]]}
    ELSE IF t.name = "SharpenFilter"
    THEN {[dtype |-> "uint8", px |-> <<a, b>>] :
             a \in AsUint8(computed[1]), b \in AsUint8(computed[2])}
    ELSE {[dtype |-> "uint8", px |-> <<a, b>>] :
             a \in AsUint8(Clip(computed[1])), b \in AsUint8(Clip(computed[2]))}

InitPhotometric ==
    /\ pc = "transform"
    /\ NoDataset
    /\ load = NoLoad /\ pool = NoPool
    /\ \/ \E name \in PhotoNames \ {"SharpenFilter"} : tf = [name |-> name]
       \/ \E iterations \in 1..MaxIterations : tf = [name |-> "SharpenFilter", iterations |-> iterations]
    /\ pixels \in PhotoArrays
    /\ last = NoCall

\* UniformNoise.apply, GaussianNoise.apply, SpeckleNoise.apply
NoiseApply ==
    /\ pc = "transform"
    /\ tf.name \in {"UniformNoise", "GaussianNoise", "SpeckleNoise"}
    /\ \E noise \in [1..2 -> NoiseValues] :
          \E computed \in {Computed(tf, [p \in 1..2 |-> pixels.px[p][1]], noise)} :
          \E ret \in Returns(tf, computed) :
             last' = [op |-> "apply", input |-> pixels, computed |-> computed, ret |-> ret]
    /\ UNCHANGED pixels
    /\ TransformFrame

\* Filter.apply, as SharpenFilter inherits it
FilterApply ==
    /\ pc = "transform"
    /\ tf.name = "SharpenFilter"
    /\ \E computed \in {Computed(tf, [p \in 1..2 |-> pixels.px[p][1]], <<0, 0>>)} :
          \E ret \in Returns(tf, computed) :
             last' = [op |-> "apply", input |-> pixels, computed |-> computed, ret |-> ret]
    /\ UNCHANGED pixels
    /\ TransformFrame

NextPhotometric == NoiseApply \/ FilterApply

SpecPhotometric == InitPhotometric /\ [][NextPhotometric]_vars

\* C27: every photometric transform returns an 8-bit unsigned image whose
\* samples are the computed values saturated to [0, 255]: 255 for a value
\* above 255, 0 for a value below 0.
C27_Saturated ==
    last.op = "apply" =>
        /\ last.ret.dtype = "uint8"
        /\ \A p \in 1..2 :
              /\ last.computed[p] > 255 => last.ret.px[p] = 255
              /\ last.computed[p] < 0 => last.ret.px[p] = 0
              /\ last.computed[p] \in 0..255 => last.ret.px[p] = last.computed[p]

\* what holds: GaussianNoise and SpeckleNoise return saturated 8-bit
\* images, UniformNoise returns saturated values in a float array, and a
\* filter returns the computed values that lie inside [0, 255]
SaturatedWhereClipped ==
    last.op = "apply" =>
        /\ last.ret.dtype = (IF tf.name = "UniformNoise" THEN "float64" ELSE "uint8")
        /\ \A p \in 1..2 :
              /\ tf.name # "SharpenFilter" => last.ret.px[p] = Clip(last.computed[p])
              /\ last.computed[p] \in 0..255 => last.ret.px[p] = last.computed[p]

\* a sharpened row <<255, 0>>: 765 came back as 253 and -510 as 2
WrappedReached ==
    /\ tf.name = "SharpenFilter" /\ last.op = "apply"
    /\ last.computed = <<765, -510>>
    /\ last.ret.px = <<253, 2>>

(***************************************************************************)
(* Claims about the layout of an expansion, checked under Spec             *)
(***************************************************************************)
\* the operations a queued sequence records on an image, in queued order
SequenceOps(seq) == [q \in 1..Len(seq) |-> Op(seq[q], 0)]

\* block s of new_x holds, for every j, old image j after sequence s, and
\* new_y repeats the label of j there; block 0 is the old array
KeptAndAppended(new_x, new_y, x, y, queue) ==
    LET n == Len(x)
    IN  /\ \A j \in 0..(n - 1) : new_x[j + 1] = x[j + 1] /\ new_y[j + 1] = y[j + 1]
        /\ \A s \in 1..Len(queue), j \in 0..(n - 1) :
              /\ new_x[n * s + j + 1].id = x[j + 1].id
              /\ new_x[n * s + j + 1].side = x[j + 1].side
              /\ new_x[n * s + j + 1].ops = x[j + 1].ops \o SequenceOps(queue[s])
              /\ new_y[n * s + j + 1] = y[j + 1]

C29_EmptyQueueNoop ==
    [][(last'.op = "apply_transforms" /\ transforms = << >>) =>
          /\ last'.raised = "none"
          /\ UNCHANGED <<train_x, train_y, test_x, test_y, shapes, resolution, transforms,
                         train_indices_by_number, test_indices_by_number>>]_vars

\* apply_transforms(keep=False) was called on an empty queue of a dataset
\* of module "digit" that holds samples
C29_Witness ==
    /\ last.op = "apply_transforms" /\ last.k = 0 /\ ~last.keep
    /\ module = "digit"
    /\ Len(train_x) = 2 /\ Len(test_x) = 1
    /\ transforms = << >>

(***************************************************************************)
(* Claims about the state of BalancedDataGenerator, checked under SpecGen  *)
(***************************************************************************)
\* idx holds every number of 0..n-1 exactly once
IsPermutation(idx, n) == Len(idx) = n /\ Range(idx) = 0..(n - 1)

IndicesArePermutations(g, ds) ==
    /\ IsPermutation(g.machine_indices, Len(ds[1].train_y))
    /\ IsPermutation(g.handwritten_indices, Len(ds[2].train_y))
    /\ IsPermutation(g.out_indices, Len(ds[3].train_y))

\* the machine rows of a batch: its first taken[1] rows
MachineRows(call) == {call.x[r] : r \in 1..call.taken[1]}

\* a __getitem__ call that returned a batch
Batch(call) == call.op = "__getitem__" /\ call.raised = "none"

\* C30: before and after every call the three index arrays are permutations
\* of 0..size-1 of their source; __getitem__ changes neither the generator
\* nor the source datasets; a __getitem__ right after another one (so with
\* no on_epoch_end between them) returns the same batch for the same index,
\* and for another index a batch that shares no machine sample with it.
C30_GeneratorStable ==
    [][/\ IndicesArePermutations(gen, datasets)
       /\ IF last'.op = "__getitem__" THEN UNCHANGED <<gen, datasets>>
          ELSE IndicesArePermutations(gen', datasets')
       /\ (Batch(last) /\ Batch(last') /\ last'.index = last.index) =>
             last'.x = last.x /\ last'.y = last.y
       /\ (Batch(last) /\ Batch(last') /\ last'.index # last.index) =>
             MachineRows(last) \cap MachineRows(last') = {}]_vars

\* batch 1 of a generator whose machine order is <<1, 0>>: its machine row
\* is the first machine image
C30_Witness ==
    /\ Batch(last) /\ last.index = 1
    /\ gen.batch_size = 3
    /\ gen.machine_indices = <<1, 0>>
    /\ last.taken[1] = 1
    /\ last.x[1].id = datasets[1].train_x[1].id

====
